---- MODULE Spec2Model ----
(***************************************************************************)
(* Model of the CPI custom-index wizard (src/analysis/cpi_wizard.py) and   *)
(* of the CPI engine (src/dashboard/cpi_engine.py): its hierarchy, its     *)
(* direct Laspeyres calculation with exclusions, and its algebraic         *)
(* core-index calculator.                                                  *)
(*                                                                         *)
(* Floating point numbers are modelled as exact rationals [n, d] with      *)
(* d > 0 and gcd(n, d) = 1; the record [n |-> 0, d |-> 0] stands for       *)
(* pandas' NaN.  Item codes such as "01.1.1.2" are modelled as tuples of   *)
(* their dotted components, <<1, 1, 1, 2>>.                                *)
(***************************************************************************)
EXTENDS Integers, Sequences, FiniteSets, TLC

VARIABLES
    selected_exclusions,  \* CPIWizard.selected_exclusions: level -> list of names
    generated_indices,    \* CPIWizard.generated_indices: list of result frames
    pc,                   \* position of CPIWizard.run: Editing, Calculated, Finished
    lastOp,               \* the menu choice and answers most recently read by run();
                          \* for the exporter, the method last called and what it returned
    coreIn,               \* arguments of the last calculate_core_with_manual_exclusions
    coreOut,              \* what that call returned (or raised)
    weights,              \* CPIWizard.weights: level -> weight table
    item_map,             \* CPIWizard.item_map: one row of names per item
    engine,               \* the fields of the CPIEngine object
    directIn,             \* the last call of the engine's direct calculation
    directOut,            \* what that call returned (or raised)
    exporter              \* the fields of the CPIWeightsExporter object

vars == <<selected_exclusions, generated_indices, pc, lastOp, coreIn, coreOut,
          weights, item_map, engine, directIn, directOut, exporter>>

-----------------------------------------------------------------------------
(* Bounds of the model *)

\* calculate is not offered once the session holds this many results
MaxResults == 2

\* longest exclusion list handed to calculate_core_with_manual_exclusions
MaxExcl == 2

-----------------------------------------------------------------------------
(* Exact rational arithmetic standing for Python floats *)

RECURSIVE GCD(_, _)
GCD(a, b) == IF b = 0 THEN a ELSE GCD(b, a % b)

Abs(x) == IF x < 0 THEN -x ELSE x

NaN == [n |-> 0, d |-> 0]

IsNaN(x) == x.d = 0

\* the reduced fraction num/den, den # 0
Rat(num, den) ==
    LET g == GCD(Abs(num), Abs(den))
        s == IF den < 0 THEN -1 ELSE 1
    IN  [n |-> s * (num \div g), d |-> s * (den \div g)]

R(i) == [n |-> i, d |-> 1]

RatAdd(x, y) == Rat(x.n * y.d + y.n * x.d, x.d * y.d)
RatSub(x, y) == Rat(x.n * y.d - y.n * x.d, x.d * y.d)
RatMul(x, y) == Rat(x.n * y.n, x.d * y.d)
\* y # 0
RatDiv(x, y) == Rat(x.n * y.d, x.d * y.n)
RatLeq(x, y) == x.n * y.d <= y.n * x.d
RatLt(x, y) == x.n * y.d < y.n * x.d
RatIsZero(x) == x.n = 0 /\ x.d # 0

RECURSIVE RatSum(_)
RatSum(s) == IF s = <<>> THEN R(0) ELSE RatAdd(RatSum(SubSeq(s, 1, Len(s) - 1)), s[Len(s)])

-----------------------------------------------------------------------------
(* Generic sequence helpers *)

RECURSIVE SelectIdx(_, _, _)
\* the elements s[i], in order, whose index i satisfies Keep(i)
SelectIdx(s, Keep(_), i) ==
    IF i > Len(s) THEN <<>>
    ELSE (IF Keep(i) THEN <<s[i]>> ELSE <<>>) \o SelectIdx(s, Keep, i + 1)

Range(s) == {s[i] : i \in 1..Len(s)}

\* list.remove(x): drops the first occurrence of x
ListRemove(s, x) ==
    LET first == CHOOSE i \in 1..Len(s) : s[i] = x /\ \A j \in 1..(i - 1) : s[j] # x
    IN  SubSeq(s, 1, first - 1) \o SubSeq(s, first + 1, Len(s))

-----------------------------------------------------------------------------
(* The weight tables read by CPIWizard.__init__ (weights_new/*.csv) and the
   price data frame (inflation_analysis_results.csv).  Each table is the list
   of its rows, in file order. *)

NoName == "NaN"

divisions_df ==
    << [Division_Code |-> <<1>>, Division_Name |-> "Food", Weight |-> 4] >>

groups_df ==
    << [Group_Code |-> <<1, 1>>, Group_Name |-> "Cereals",
        Division_Code |-> <<1>>, Weight |-> 4] >>

classes_df ==
    << [Class_Code |-> <<1, 1, 1>>, Class_Name |-> "Rice",
        Group_Code |-> <<1, 1>>, Weight |-> 4] >>

items_df ==
    << [Item_Code |-> <<1, 1, 1, 1>>, Item_Name |-> "Basmati", Weight |-> 3],
       [Item_Code |-> <<1, 1, 1, 2>>, Item_Name |-> "Ponni", Weight |-> 1] >>

\* a second set of weight files, in which two classes carry the same name
classes_df_others ==
    << [Class_Code |-> <<1, 1, 1>>, Class_Name |-> "Others",
        Group_Code |-> <<1, 1>>, Weight |-> 3],
       [Class_Code |-> <<1, 1, 2>>, Class_Name |-> "Others",
        Group_Code |-> <<1, 1>>, Weight |-> 1] >>

items_df_others ==
    << [Item_Code |-> <<1, 1, 1, 1>>, Item_Name |-> "Basmati", Weight |-> 3],
       [Item_Code |-> <<1, 1, 2, 1>>, Item_Name |-> "Ragi", Weight |-> 1] >>

\* the four tables read from weights_new/
WeightsNew ==
    [division |-> divisions_df, group |-> groups_df,
     class |-> classes_df, item |-> items_df]

\* the same, read from the files in which two classes share a name
WeightsSameNames ==
    [division |-> divisions_df, group |-> groups_df,
     class |-> classes_df_others, item |-> items_df_others]

Levels == {"division", "group", "class", "item"}

\* the col_name _pick_exclusion is called with for each level
NameColumn(level) ==
    CASE level = "division" -> "Division_Name"
      [] level = "group"    -> "Group_Name"
      [] level = "class"    -> "Class_Name"
      [] level = "item"     -> "Item_Name"

\* self.weights[level][col_name], in row order
LevelNames(level) ==
    [i \in 1..Len(weights[level]) |-> weights[level][i][NameColumn(level)]]

\* the sentinel '*' of the code column of aggregate rows
Star == <<>>

\* the (state, sector) pairs of the data, in the order sort_values gives them
GroupKeys ==
    << [state |-> "All India", sector |-> "Combined"],
       [state |-> "Goa", sector |-> "Rural"] >>

\* the dates of the data, ascending
Dates == <<1, 2, 3>>

\* the index column of the item-level rows
ItemIndex(code, k, date) ==
    IF code = <<1, 1, 1, 1>>
    THEN (IF k = 1 THEN <<100, 110, 121>> ELSE <<100, 105, 105>>)[date]
    ELSE (IF k = 1 THEN <<100, 130, 117>> ELSE <<100, 100, 120>>)[date]

\* the items the data file has rows for
PricedItems ==
    << [Item_Code |-> <<1, 1, 1, 1>>, Item_Name |-> "Basmati"],
       [Item_Code |-> <<1, 1, 1, 2>>, Item_Name |-> "Ponni"],
       [Item_Code |-> <<1, 1, 2, 1>>, Item_Name |-> "Ragi"] >>

\* the data file has a row for item i, group key k and date t: every one
\* but Ragi's second date in Goa
HasItemRow(i, k, t) == ~(PricedItems[i].Item_Name = "Ragi" /\ k = 2 /\ t = 2)

\* self.df: item-level rows and one aggregate row per date and group key
df ==
    { [date |-> Dates[x[1]], state |-> GroupKeys[x[2]].state,
       sector |-> GroupKeys[x[2]].sector,
       item |-> PricedItems[x[3]].Item_Name, code |-> PricedItems[x[3]].Item_Code,
       index |-> R(ItemIndex(PricedItems[x[3]].Item_Code, x[2], x[1]))] :
         x \in { y \in (1..Len(Dates)) \X (1..Len(GroupKeys)) \X (1..Len(PricedItems)) :
                   HasItemRow(y[3], y[2], y[1]) } }
    \cup
    { [date |-> Dates[t], state |-> GroupKeys[k].state, sector |-> GroupKeys[k].sector,
       item |-> "*", code |-> Star, index |-> R(100)] :
         t \in 1..Len(Dates), k \in 1..Len(GroupKeys) }

-----------------------------------------------------------------------------
(* CPIWizard._build_item_map *)

\* res['Item_Code'].str.extract(r'^(\d+\.\d+\.\d+)')
ClassCodeOf(item_code) == SubSeq(item_code, 1, 3)

RECURSIVE LeftLookup(_, _, _, _)
\* the first row r of table with r[key] = value from position i on, or <<>>
\* (the tables hold one row per code, so a left merge keeps one row per item)
LeftLookup(table, key, value, i) ==
    IF i > Len(table) THEN <<>>
    ELSE IF table[i][key] = value THEN <<table[i]>>
    ELSE LeftLookup(table, key, value, i + 1)

ItemMapRow(w, item) ==
    LET cls == LeftLookup(w["class"], "Class_Code", ClassCodeOf(item.Item_Code), 1)
        grp == IF cls = <<>> THEN <<>>
               ELSE LeftLookup(w["group"], "Group_Code", cls[1].Group_Code, 1)
        div == IF grp = <<>> THEN <<>>
               ELSE LeftLookup(w["division"], "Division_Code", grp[1].Division_Code, 1)
    IN  [Item_Code |-> item.Item_Code,
         Item_Name |-> item.Item_Name,
         Division_Name |-> IF div = <<>> THEN NoName ELSE div[1].Division_Name,
         Group_Name |-> IF grp = <<>> THEN NoName ELSE grp[1].Group_Name,
         Class_Name |-> IF cls = <<>> THEN NoName ELSE cls[1].Class_Name,
         Weight |-> item.Weight]

\* the frame _build_item_map returns for the weight tables w
BuildItemMap(w) == [i \in 1..Len(w["item"]) |-> ItemMapRow(w, w["item"][i])]

-----------------------------------------------------------------------------
(* CPIWizard._get_excluded_item_codes *)

\* the resolver without the exclusion by class name
ExcludedItemCodesNoClass(excl) ==
    { item_map[i].Item_Code : i \in
        { j \in 1..Len(item_map) :
            \/ item_map[j].Division_Name \in Range(excl["division"])
            \/ item_map[j].Group_Name \in Range(excl["group"])
            \/ item_map[j].Item_Name \in Range(excl["item"]) } }

ExcludedItemCodes(excl) ==
    { item_map[i].Item_Code : i \in
        { j \in 1..Len(item_map) :
            \/ item_map[j].Division_Name \in Range(excl["division"])
            \/ item_map[j].Group_Name \in Range(excl["group"])
            \/ item_map[j].Class_Name \in Range(excl["class"])
            \/ item_map[j].Item_Name \in Range(excl["item"]) } }

-----------------------------------------------------------------------------
(* calculate_mom_change / calculate_yoy_change: groupby(...).pct_change(periods) * 100
   over the index values of one group, in date order *)

PctChange(vals, periods) ==
    [i \in 1..Len(vals) |->
        IF i <= periods THEN NaN
        ELSE RatMul(RatSub(RatDiv(vals[i], vals[i - periods]), R(1)), R(100))]

MomPeriods == 1
YoyPeriods == 12

-----------------------------------------------------------------------------
(* CPIWizard._calculate_current *)

\* the names typed at "Enter a name for this custom index"
NameInputs == {"", "Core", " Core "}

\* input(...).strip()
Strip(text) == IF text = " Core " THEN "Core" ELSE text

\* datetime.now() at the moment the default name is built: the session is
\* modelled at one reading of the clock
Clock == {1}

\* f"Custom Index ({datetime.now().strftime('%H%M%S')})"
DefaultName(now) ==
    IF now = 1 THEN "Custom Index (091500)" ELSE "Custom Index (091501)"

\* the name typed is kept even when it is empty
IndexNameNoDefault(input, now) == Strip(input)

\* index_name = input(...).strip(), replaced by the default name when empty
IndexName(input, now) == IF Strip(input) = "" THEN DefaultName(now) ELSE Strip(input)

None == [kind |-> "None"]

\* item_map[~item_map['Item_Code'].isin(excluded_codes)]
RemainingItems(excl) ==
    SelectIdx(item_map, LAMBDA i : item_map[i].Item_Code \notin ExcludedItemCodes(excl), 1)

\* remaining_items['norm_weight'] = Weight / total_weight * 100
NormWeights(remaining) ==
    LET total_weight == RatSum([i \in 1..Len(remaining) |-> R(remaining[i].Weight)])
    IN  [i \in 1..Len(remaining) |->
            IF RatIsZero(total_weight) THEN NaN
            ELSE RatMul(RatDiv(R(remaining[i].Weight), total_weight), R(100))]

\* the rows of item_data (item != '*') for one item, group key and date
ItemRows(code, k, t) ==
    { r \in df : /\ r.item # "*"
                 /\ r.code = code
                 /\ r.state = GroupKeys[k].state
                 /\ r.sector = GroupKeys[k].sector
                 /\ r.date = Dates[t] }

\* positions of the remaining items that the merge matches for (k, t)
Matched(remaining, k, t) ==
    SelectIdx([i \in 1..Len(remaining) |-> i],
              LAMBDA i : ItemRows(remaining[i].Item_Code, k, t) # {}, 1)

\* (x['index'] * x['norm_weight']).sum() / x['norm_weight'].sum()
WeightedMean(remaining, k, t) ==
    LET nw == NormWeights(remaining)
        m == Matched(remaining, k, t)
        price(i) == (CHOOSE r \in ItemRows(remaining[i].Item_Code, k, t) : TRUE).index
    IN  RatDiv(RatSum([j \in 1..Len(m) |-> RatMul(price(m[j]), nw[m[j]])]),
               RatSum([j \in 1..Len(m) |-> nw[m[j]]]))

\* the rows of one group key, in date order, with mom_change and yoy_change
GroupSeries(remaining, k, index_name) ==
    LET ts == SelectIdx([t \in 1..Len(Dates) |-> t],
                        LAMBDA t : Matched(remaining, k, t) # <<>>, 1)
        vals == [j \in 1..Len(ts) |-> WeightedMean(remaining, k, ts[j])]
        mom == PctChange(vals, MomPeriods)
        yoy == PctChange(vals, YoyPeriods)
    IN  [j \in 1..Len(ts) |->
            [date |-> Dates[ts[j]], state |-> GroupKeys[k].state,
             sector |-> GroupKeys[k].sector, index |-> vals[j],
             division |-> index_name, code |-> Star,
             mom_change |-> mom[j], yoy_change |-> yoy[j]]]

RECURSIVE AllSeries(_, _, _)
AllSeries(remaining, k, index_name) ==
    IF k > Len(GroupKeys) THEN <<>>
    ELSE GroupSeries(remaining, k, index_name) \o AllSeries(remaining, k + 1, index_name)

\* the frame _calculate_current returns, or None when every item is excluded
CalculateCurrent(excl, input, now) ==
    LET index_name == IndexName(input, now)
        remaining_items == RemainingItems(excl)
    IN  IF remaining_items = <<>> THEN None
        ELSE [kind |-> "frame", rows |-> AllSeries(remaining_items, 1, index_name)]

-----------------------------------------------------------------------------
(* CPIWizard._pick_exclusion *)

\* a pick that only ever adds the name
TogglePickAddOnly(list, name) == Append(list, name)

\* the toggle of one name in one level's list
TogglePick(list, name) ==
    IF name \in Range(list) THEN ListRemove(list, name) ELSE Append(list, name)

\* w_df.iloc[idx]: rows count from 0, negative indices from the end; 0 when
\* idx is outside the table (iloc raises IndexError)
IlocRow(names, idx) ==
    IF idx >= 0 /\ idx < Len(names) THEN idx + 1
    ELSE IF idx < 0 /\ -idx <= Len(names) THEN Len(names) + idx + 1
    ELSE 0

RECURSIVE ApplyToggles(_, _, _, _)
\* the loop over indices.split(","): the exception of an index outside the
\* table ends the loop and keeps the toggles done so far
ApplyToggles(list, names, indices, k) ==
    IF k > Len(indices) THEN list
    ELSE IF IlocRow(names, indices[k]) = 0 THEN list
    ELSE ApplyToggles(TogglePick(list, names[IlocRow(names, indices[k])]),
                      names, indices, k + 1)

\* the index lists typed at "Enter indices to toggle exclusion"
PickInputs == {<<0>>, <<1>>, <<-1>>, <<0, 0>>, <<1, 2, 0>>}

NoExclusions == [l \in Levels |-> <<>>]

-----------------------------------------------------------------------------
(* CPIWizard.run: the session

   pc is the place run() waits for input: "Editing" is the menu of the inner
   loop, "Calculated" the prompt that follows _calculate_current (clear the
   exclusions?), "AskAnother" the prompt after it (another index?),
   "Finished" the end of the outer loop, where generated_indices is handed to
   _save_results (file output, not modelled). *)

NoCall == [kind |-> "none"]

\* no CPIEngine object exists
NoEngine == [kind |-> "none"]

\* no CPIWeightsExporter object exists
NoExporter == [kind |-> "none"]

\* CPIWizard.__init__ on the weight files w
WizardInit(w) ==
    /\ weights = w
    /\ item_map = BuildItemMap(weights)
    /\ selected_exclusions = NoExclusions
    /\ generated_indices = <<>>
    /\ pc = "Editing"
    /\ lastOp = [op |-> "init"]
    /\ coreIn = NoCall
    /\ coreOut = NoCall
    /\ engine = NoEngine
    /\ directIn = NoCall
    /\ directOut = NoCall
    /\ exporter = NoExporter

Init == WizardInit(WeightsNew)

\* the wizard started on the files in which two classes share a name
InitSameNames == WizardInit(WeightsSameNames)

\* choices "1".."4": toggle exclusions of one level
PickExclusion(level, indices) ==
    /\ pc = "Editing"
    /\ selected_exclusions' =
          [selected_exclusions EXCEPT
              ![level] = ApplyToggles(@, LevelNames(level), indices, 1)]
    /\ lastOp' = [op |-> "toggle"]
    /\ UNCHANGED <<exporter, generated_indices, pc, coreIn, coreOut,
                 weights, item_map, engine, directIn, directOut>>

\* a reset that forgets every level but the item level
ResetItemsOnly ==
    /\ pc = "Editing"
    /\ selected_exclusions' = [selected_exclusions EXCEPT !["item"] = <<>>]
    /\ lastOp' = [op |-> "reset"]
    /\ UNCHANGED <<exporter, generated_indices, pc, coreIn, coreOut,
                 weights, item_map, engine, directIn, directOut>>

\* choice "0": RESET core exclusions
Reset ==
    /\ pc = "Editing"
    /\ selected_exclusions' = NoExclusions
    /\ lastOp' = [op |-> "reset"]
    /\ UNCHANGED <<exporter, generated_indices, pc, coreIn, coreOut,
                 weights, item_map, engine, directIn, directOut>>

\* any other choice: "Invalid choice."
InvalidChoice ==
    /\ pc = "Editing"
    /\ lastOp' = [op |-> "invalid"]
    /\ UNCHANGED <<exporter, selected_exclusions, generated_indices, pc, coreIn, coreOut,
                 weights, item_map, engine, directIn, directOut>>

\* a calculation that filters item_map itself instead of a copy of it
CalculateInPlace(input, now) ==
    /\ pc = "Editing"
    /\ Len(generated_indices) < MaxResults
    /\ LET custom_series == CalculateCurrent(selected_exclusions, input, now)
       IN  /\ generated_indices' =
                 IF custom_series # None
                 THEN Append(generated_indices, custom_series)
                 ELSE generated_indices
           /\ lastOp' = [op |-> "calculate", input |-> input,
                         ok |-> custom_series # None]
    /\ pc' = "Calculated"
    /\ item_map' = RemainingItems(selected_exclusions)
    /\ UNCHANGED <<exporter, selected_exclusions, coreIn, coreOut,
                   weights, engine, directIn, directOut>>

\* a calculation that returns the frame queued earlier under the same name
CalculateCached(input, now) ==
    /\ pc = "Editing"
    /\ Len(generated_indices) < MaxResults
    /\ LET cached == {i \in 1..Len(generated_indices) :
                        generated_indices[i].rows[1].division = IndexName(input, now)}
           custom_series ==
               IF cached # {} THEN generated_indices[CHOOSE i \in cached : TRUE]
               ELSE CalculateCurrent(selected_exclusions, input, now)
       IN  /\ generated_indices' =
                 IF custom_series # None
                 THEN Append(generated_indices, custom_series)
                 ELSE generated_indices
           /\ lastOp' = [op |-> "calculate", input |-> input,
                         ok |-> custom_series # None]
    /\ pc' = "Calculated"
    /\ UNCHANGED <<exporter, selected_exclusions, coreIn, coreOut,
                   weights, item_map, engine, directIn, directOut>>

\* choice "5": leave the menu loop, calculate, queue the frame unless it is None
Calculate(input, now) ==
    /\ pc = "Editing"
    /\ Len(generated_indices) < MaxResults
    /\ LET custom_series == CalculateCurrent(selected_exclusions, input, now)
       IN  /\ generated_indices' =
                 IF custom_series # None
                 THEN Append(generated_indices, custom_series)
                 ELSE generated_indices
           /\ lastOp' = [op |-> "calculate", input |-> input,
                         ok |-> custom_series # None]
    /\ pc' = "Calculated"
    /\ UNCHANGED <<exporter, selected_exclusions, coreIn, coreOut,
                 weights, item_map, engine, directIn, directOut>>

\* the answers typed at the two prompts that follow a calculation
ClearAnswers == {"y", "n", ""}
NextAnswers == {"y", "n"}

\* the first prompt with the exclusions cleared only on an explicit "y"
ClearPromptOnYes(clear_ex) ==
    /\ pc = "Calculated"
    /\ selected_exclusions' =
          IF clear_ex = "y" THEN NoExclusions ELSE selected_exclusions
    /\ pc' = "AskAnother"
    /\ lastOp' = [op |-> "clear", clear_ex |-> clear_ex]
    /\ UNCHANGED <<exporter, generated_indices, coreIn, coreOut,
                   weights, item_map, engine, directIn, directOut>>

\* "Clear current exclusions for the next index?": the answer is read, the
\* exclusions are cleared unless it is "n", and run() goes on to wait at the
\* next prompt
ClearPrompt(clear_ex) ==
    /\ pc = "Calculated"
    /\ selected_exclusions' =
          IF clear_ex # "n" THEN NoExclusions ELSE selected_exclusions
    /\ pc' = "AskAnother"
    /\ lastOp' = [op |-> "clear", clear_ex |-> clear_ex]
    /\ UNCHANGED <<exporter, generated_indices, coreIn, coreOut,
                   weights, item_map, engine, directIn, directOut>>

\* "Would you like to define ANOTHER index?": back to the menu on "y", out
\* of the outer loop otherwise
AnotherPrompt(next_step) ==
    /\ pc = "AskAnother"
    /\ pc' = IF next_step # "y" THEN "Finished" ELSE "Editing"
    /\ lastOp' = [op |-> "continue", clear_ex |-> lastOp.clear_ex, next_step |-> next_step]
    /\ UNCHANGED <<exporter, selected_exclusions, generated_indices, coreIn, coreOut,
                   weights, item_map, engine, directIn, directOut>>

\* the input ends while run() waits at a prompt: input() raises EOFError,
\* run() is left by the exception and _save_results is not reached
EndOfInput ==
    /\ pc \in {"Editing", "Calculated", "AskAnother"}
    /\ pc' = "Aborted"
    /\ lastOp' = [op |-> "eof"]
    /\ UNCHANGED <<exporter, selected_exclusions, generated_indices, coreIn, coreOut,
                   weights, item_map, engine, directIn, directOut>>

Next ==
    \/ \E level \in Levels, indices \in PickInputs : PickExclusion(level, indices)
    \/ Reset
    \/ InvalidChoice
    \/ \E input \in NameInputs, now \in Clock : Calculate(input, now)
    \/ \E clear_ex \in ClearAnswers : ClearPrompt(clear_ex)
    \/ \E next_step \in NextAnswers : AnotherPrompt(next_step)
    \/ EndOfInput

Spec == Init /\ [][Next]_vars

SpecSameNames == InitSameNames /\ [][Next]_vars

\* datetime.now() read at two different seconds of one session
ClockReadings == {1, 2}

\* the session, its calculations made at different times and its picks
\* made at the class and item levels
NextTimed ==
    \/ \E level \in {"class", "item"}, indices \in {<<0>>, <<1>>} :
          PickExclusion(level, indices)
    \/ Reset
    \/ InvalidChoice
    \/ \E input \in NameInputs, now \in ClockReadings : Calculate(input, now)
    \/ \E clear_ex \in ClearAnswers : ClearPrompt(clear_ex)
    \/ \E next_step \in NextAnswers : AnotherPrompt(next_step)
    \/ EndOfInput

SpecTimed == Init /\ [][NextTimed]_vars

-----------------------------------------------------------------------------
(* CPIEngine: construction, load_prices and the direct calculation
   (get_headline_index, get_index_with_exclusions, _calculate_laspeyres).

   Codes are compared as the strings str(code).strip() / astype(str) gives
   for them; two codes of one column give the same string exactly when they
   are the same code, which is how the tuples below compare.  Every table
   holds one row per code (the exporter drops duplicate item codes). *)

\* the five files of a weights directory; fuel is the weight of the one
\* item of division 2 and of the nodes above it
WeightsDir(fuel) ==
    [divisions_df |->
        << [Division_Code |-> <<1>>, Division_Name |-> "Food", Weight |-> 6],
           [Division_Code |-> <<2>>, Division_Name |-> "Fuel", Weight |-> fuel] >>,
     groups_df |->
        << [Group_Code |-> <<1, 1>>, Group_Name |-> "Cereals",
            Division_Code |-> <<1>>, Weight |-> 6],
           [Group_Code |-> <<2, 1>>, Group_Name |-> "Liquid fuels",
            Division_Code |-> <<2>>, Weight |-> fuel] >>,
     classes_df |->
        << [Class_Code |-> <<1, 1, 1>>, Class_Name |-> "Rice",
            Group_Code |-> <<1, 1>>, Weight |-> 4],
           [Class_Code |-> <<1, 1, 2>>, Class_Name |-> "Wheat",
            Group_Code |-> <<1, 1>>, Weight |-> 2],
           [Class_Code |-> <<2, 1, 1>>, Class_Name |-> "Kerosene",
            Group_Code |-> <<2, 1>>, Weight |-> fuel] >>,
     subclasses_df |->
        << [Subclass_Code |-> <<1, 1, 1, 1>>, Subclass_Name |-> "Rice",
            Class_Code |-> <<1, 1, 1>>, Weight |-> 4],
           [Subclass_Code |-> <<1, 1, 2, 1>>, Subclass_Name |-> "Wheat",
            Class_Code |-> <<1, 1, 2>>, Weight |-> 2],
           [Subclass_Code |-> <<2, 1, 1, 1>>, Subclass_Name |-> "Kerosene",
            Class_Code |-> <<2, 1, 1>>, Weight |-> fuel] >>,
     items_df |->
        << [Item_Code |-> <<1, 1, 1, 1, 1>>, Item_Name |-> "Basmati",
            Subclass_Code |-> <<1, 1, 1, 1>>, Weight |-> 3],
           [Item_Code |-> <<1, 1, 1, 1, 2>>, Item_Name |-> "Ponni",
            Subclass_Code |-> <<1, 1, 1, 1>>, Weight |-> 1],
           [Item_Code |-> <<1, 1, 2, 1, 1>>, Item_Name |-> "Atta",
            Subclass_Code |-> <<1, 1, 2, 1>>, Weight |-> 2],
           [Item_Code |-> <<2, 1, 1, 1, 1>>, Item_Name |-> "Kerosene",
            Subclass_Code |-> <<2, 1, 1, 1>>, Weight |-> fuel] >>]

\* the weight of division 2 in the directories an engine is built from
FuelWeights == {0, 4}

\* table[...][key] == value, as a list of rows in table order
RowsWhere(table, key, value) ==
    SelectIdx(table, LAMBDA i : table[i][key] = value, 1)

\* the codes of column key
Codes(table, key) == {table[i][key] : i \in 1..Len(table)}

\* the row a dict keyed by code ends up holding for code: the last one written
LastRow(table, key, code) ==
    table[CHOOSE i \in 1..Len(table) :
             /\ table[i][key] = code
             /\ \A j \in (i + 1)..Len(table) : table[j][key] # code]

RECURSIVE ItemList(_, _, _)
\* item_list: the Item_Codes of the subclasses of one class, subclass by
\* subclass (item_list.extend(items))
ItemList(dir, subclasses_in_cls, k) ==
    IF k > Len(subclasses_in_cls) THEN <<>>
    ELSE LET items == RowsWhere(dir.items_df, "Subclass_Code",
                                subclasses_in_cls[k].Subclass_Code)
         IN  [i \in 1..Len(items) |-> items[i].Item_Code]
             \o ItemList(dir, subclasses_in_cls, k + 1)

\* self.hierarchy[div_code]['groups'][grp_code]['classes'][cls_code]
ClassNode(dir, cls_row) ==
    LET item_list == ItemList(dir, RowsWhere(dir.subclasses_df, "Class_Code",
                                             cls_row.Class_Code), 1)
    IN  [name |-> cls_row.Class_Name, weight |-> R(cls_row.Weight),
         item_count |-> Len(item_list), items |-> item_list]

\* self.hierarchy[div_code]['groups'][grp_code]
GroupNode(dir, grp_row) ==
    LET classes_in_grp == RowsWhere(dir.classes_df, "Group_Code", grp_row.Group_Code)
    IN  [name |-> grp_row.Group_Name, weight |-> R(grp_row.Weight),
         classes |-> [c \in Codes(classes_in_grp, "Class_Code") |->
                         ClassNode(dir, LastRow(classes_in_grp, "Class_Code", c))]]

\* self.hierarchy[div_code]
DivisionNode(dir, div_row) ==
    LET groups_in_div == RowsWhere(dir.groups_df, "Division_Code", div_row.Division_Code)
    IN  [name |-> div_row.Division_Name, weight |-> R(div_row.Weight),
         groups |-> [g \in Codes(groups_in_div, "Group_Code") |->
                        GroupNode(dir, LastRow(groups_in_div, "Group_Code", g))]]

\* CPIEngine._build_hierarchy
BuildHierarchy(dir) ==
    [d \in Codes(dir.divisions_df, "Division_Code") |->
        DivisionNode(dir, LastRow(dir.divisions_df, "Division_Code", d))]

\* CPIEngine.__init__: the object after _load_weights
LoadWeights(dir) ==
    [kind |-> "engine",
     items_df |-> dir.items_df, subclasses_df |-> dir.subclasses_df,
     classes_df |-> dir.classes_df, groups_df |-> dir.groups_df,
     divisions_df |-> dir.divisions_df,
     prices_df |-> None, months |-> None,
     hierarchy |-> BuildHierarchy(dir)]

\* one row of a price file: Item_Code and one cell per month column, the
\* cells in the sorted order of the column names; an empty cell reads as NaN
PriceRow(code, cells) ==
    [Item_Code |-> code, cells |-> [m \in 1..Len(cells) |->
                                       IF cells[m] = 0 THEN NaN ELSE R(cells[m])]]

\* the price files load_prices may be given: complete; with one empty cell;
\* without a row for one item
PriceFiles ==
    { << PriceRow(<<1, 1, 1, 1, 1>>, <<100, 110, 121>>),
         PriceRow(<<1, 1, 1, 1, 2>>, <<100, 130, 117>>),
         PriceRow(<<1, 1, 2, 1, 1>>, <<100, 100, 120>>),
         PriceRow(<<2, 1, 1, 1, 1>>, <<100, 105, 105>>) >>,
      << PriceRow(<<1, 1, 1, 1, 1>>, <<100, 110, 121>>),
         PriceRow(<<1, 1, 1, 1, 2>>, <<100, 0, 117>>),
         PriceRow(<<1, 1, 2, 1, 1>>, <<100, 100, 120>>),
         PriceRow(<<2, 1, 1, 1, 1>>, <<100, 105, 105>>) >>,
      << PriceRow(<<1, 1, 1, 1, 1>>, <<100, 110, 121>>),
         PriceRow(<<1, 1, 1, 1, 2>>, <<100, 130, 117>>),
         PriceRow(<<2, 1, 1, 1, 1>>, <<100, 105, 105>>) >> }

\* the sorted month columns of a price file
MonthColumns(file) == IF file = <<>> THEN <<>> ELSE [m \in 1..Len(file[1].cells) |-> m]

\* x * y of two cells (NaN when either is)
NanMul(x, y) == IF IsNaN(x) \/ IsNaN(y) THEN NaN ELSE RatMul(x, y)

\* Series.sum(): NaN entries are skipped
SumSkipNa(s) == RatSum(SelectSeq(s, LAMBDA x : ~IsNaN(x)))

\* every selected item is given the same share of 100
WeightsNormalizedEqual(items_data) ==
    [i \in 1..Len(items_data) |-> Rat(100, Len(items_data))]

\* (weights / weight_sum) * 100; 0 / 0 is NaN
WeightsNormalized(items_data) ==
    LET weight_sum == RatSum([i \in 1..Len(items_data) |-> R(items_data[i].Weight)])
    IN  [i \in 1..Len(items_data) |->
            IF RatIsZero(weight_sum) THEN NaN
            ELSE RatMul(RatDiv(R(items_data[i].Weight), weight_sum), R(100))]

\* month_prices[code]
MonthPrice(prices_data, code, month) ==
    LET row == CHOOSE i \in 1..Len(prices_data) : prices_data[i].Item_Code = code
    IN  prices_data[row].cells[month]

\* the positions in items_data of matched_items
MatchedItems(items_data, prices_data) ==
    SelectIdx([i \in 1..Len(items_data) |-> i],
              LAMBDA i : items_data[i].Item_Code \in Codes(prices_data, "Item_Code"), 1)

\* the index is returned as the bare weighted mean
MonthIndexValueNoScale(weighted_sum, weight_total) ==
    IF RatLt(R(0), weight_total)
    THEN RatDiv(weighted_sum, weight_total)
    ELSE R(100)

\* index_value of one month
MonthIndexValue(weighted_sum, weight_total) ==
    IF RatLt(R(0), weight_total)
    THEN RatMul(RatDiv(weighted_sum, weight_total), R(100))
    ELSE R(100)

\* the body of "for month in self.months": the entry appended to
\* monthly_data, or nothing when no item is matched
MonthEntry(items_data, prices_data, month) ==
    LET weights_normalized == WeightsNormalized(items_data)
        matched_items == MatchedItems(items_data, prices_data)
        weighted_sum ==
            SumSkipNa([j \in 1..Len(matched_items) |->
                NanMul(MonthPrice(prices_data, items_data[matched_items[j]].Item_Code, month),
                       weights_normalized[matched_items[j]])])
        weight_total ==
            SumSkipNa([j \in 1..Len(matched_items) |-> weights_normalized[matched_items[j]]])
    IN  IF matched_items = <<>> THEN <<>>
        ELSE << [Month |-> month, Index |-> MonthIndexValue(weighted_sum, weight_total)] >>

RECURSIVE MonthlyIndexes(_, _, _, _)
MonthlyIndexes(items_data, prices_data, months, k) ==
    IF k > Len(months) THEN <<>>
    ELSE MonthEntry(items_data, prices_data, months[k])
         \o MonthlyIndexes(items_data, prices_data, months, k + 1)

\* the loop "Calculate MoM changes"; prev_index # 0
WithMoMChange(monthly_data) ==
    [i \in 1..Len(monthly_data) |->
        [Month |-> monthly_data[i].Month,
         Index |-> monthly_data[i].Index,
         MoM_Change |->
            IF i > 1
            THEN RatMul(RatDiv(RatSub(monthly_data[i].Index, monthly_data[i - 1].Index),
                               monthly_data[i - 1].Index), R(100))
            ELSE R(0)]]

Raise(error) == [kind |-> "raise", error |-> error]

\* Total_Weight reports the renormalised sum instead of the raw one
CalculateLaspeyresNormalizedTotal(e, item_codes, variant_name) ==
    IF item_codes = {} \/ e.prices_df = None THEN None
    ELSE LET items_data == SelectIdx(e.items_df,
                              LAMBDA i : e.items_df[i].Item_Code \in item_codes, 1)
             prices_data == SelectIdx(e.prices_df,
                              LAMBDA i : e.prices_df[i].Item_Code \in item_codes, 1)
             monthly_data == MonthlyIndexes(items_data, prices_data, e.months, 1)
         IN  IF items_data = <<>> \/ prices_data = <<>> THEN None
             ELSE [kind |-> "result", Variant |-> variant_name,
                   Items_Count |-> Len(items_data), Total_Weight |-> R(100),
                   Weight_Normalized |-> R(100),
                   Monthly_Data |-> WithMoMChange(monthly_data)]

\* CPIEngine._calculate_laspeyres; item_codes is read through "not
\* item_codes" and isin(item_codes) only, so it is modelled as a set
CalculateLaspeyres(e, item_codes, variant_name) ==
    IF item_codes = {} \/ e.prices_df = None THEN None
    ELSE LET items_data == SelectIdx(e.items_df,
                              LAMBDA i : e.items_df[i].Item_Code \in item_codes, 1)
             prices_data == SelectIdx(e.prices_df,
                              LAMBDA i : e.prices_df[i].Item_Code \in item_codes, 1)
             weight_sum == RatSum([i \in 1..Len(items_data) |-> R(items_data[i].Weight)])
             monthly_data == MonthlyIndexes(items_data, prices_data, e.months, 1)
         IN  IF items_data = <<>> \/ prices_data = <<>> THEN None
             ELSE IF \E i \in 2..Len(monthly_data) : RatIsZero(monthly_data[i - 1].Index)
             THEN \* a float division by zero raises
                  Raise("ZeroDivisionError")
             ELSE [kind |-> "result", Variant |-> variant_name,
                   Items_Count |-> Len(items_data),
                   Total_Weight |-> weight_sum,
                   Weight_Normalized |->
                       IF RatIsZero(weight_sum) THEN NaN
                       ELSE RatMul(RatDiv(weight_sum, weight_sum), R(100)),
                   Monthly_Data |-> WithMoMChange(monthly_data)]

\* the headline taken over the items that have a price row only
GetHeadlineIndexPricedOnly(e) ==
    CalculateLaspeyres(e, IF e.prices_df = None THEN {}
                          ELSE Codes(e.prices_df, "Item_Code"), "Headline CPI")

\* CPIEngine.get_headline_index
GetHeadlineIndex(e) ==
    CalculateLaspeyres(e, Codes(e.items_df, "Item_Code"), "Headline CPI")

\* the items of every class of one group node
GroupItems(grp_data) ==
    UNION { Range(grp_data.classes[c].items) : c \in DOMAIN grp_data.classes }

\* excluded_items of get_index_with_exclusions: unknown codes find nothing
ExcludedItems(e, excluded_divisions, excluded_groups, excluded_classes) ==
    LET by_division ==
            UNION { UNION { GroupItems(e.hierarchy[d].groups[g]) :
                              g \in DOMAIN e.hierarchy[d].groups } :
                      d \in Range(excluded_divisions) \cap DOMAIN e.hierarchy }
        by_group ==
            UNION { UNION { GroupItems(e.hierarchy[d].groups[g]) :
                              d \in {dd \in DOMAIN e.hierarchy :
                                        g \in DOMAIN e.hierarchy[dd].groups} } :
                      g \in Range(excluded_groups) }
        by_class ==
            UNION { UNION { UNION { Range(e.hierarchy[d].groups[g].classes[c].items) :
                                      g \in {gg \in DOMAIN e.hierarchy[d].groups :
                                                c \in DOMAIN e.hierarchy[d].groups[gg].classes} } :
                              d \in DOMAIN e.hierarchy } :
                      c \in Range(excluded_classes) }
    IN  by_division \cup by_group \cup by_class

\* get_index_with_exclusions reading self.hierarchy[div_code]: a division
\* code that is no key raises
GetIndexWithExclusionsKeyError(e, excluded_divisions, excluded_groups, excluded_classes) ==
    IF ~(Range(excluded_divisions) \subseteq DOMAIN e.hierarchy)
    THEN Raise("KeyError")
    ELSE LET excluded_items == ExcludedItems(e, excluded_divisions, excluded_groups,
                                            excluded_classes)
             result == CalculateLaspeyres(e, Codes(e.items_df, "Item_Code") \ excluded_items,
                                          "CPI with Exclusions")
         IN  IF result = None THEN Raise("TypeError") ELSE result

\* CPIEngine.get_index_with_exclusions
GetIndexWithExclusions(e, excluded_divisions, excluded_groups, excluded_classes) ==
    LET all_items == Codes(e.items_df, "Item_Code")
        excluded_items == ExcludedItems(e, excluded_divisions, excluded_groups,
                                        excluded_classes)
        excluded_rows == SelectIdx(e.items_df,
                             LAMBDA i : e.items_df[i].Item_Code \in excluded_items, 1)
        excluded_weight == RatSum([i \in 1..Len(excluded_rows) |-> R(excluded_rows[i].Weight)])
        result == CalculateLaspeyres(e, all_items \ excluded_items, "CPI with Exclusions")
    IN  IF result = None
        THEN \* result['excluded_items_count'] = ... on None
             Raise("TypeError")
        ELSE IF result.kind = "raise" THEN result
        ELSE [kind |-> "result", Variant |-> result.Variant,
              Items_Count |-> result.Items_Count,
              Total_Weight |-> result.Total_Weight,
              Weight_Normalized |-> result.Weight_Normalized,
              Monthly_Data |-> result.Monthly_Data,
              excluded_items_count |-> Cardinality(excluded_items),
              excluded_weight |-> excluded_weight]

\* the item codes _calculate_laspeyres is called with
ItemCodeArgs ==
    SUBSET { <<1, 1, 1, 1, 1>>, <<1, 1, 1, 1, 2>>, <<1, 1, 2, 1, 1>>, <<2, 1, 1, 1, 1>> }

\* calls that name, beside codes of the hierarchy, a code that is no node
\* of the level it is given at
UnknownSelectorCalls ==
    { [kind |-> "get_index_with_exclusions", excluded_divisions |-> << <<1>>, <<9>> >>,
       excluded_groups |-> <<>>, excluded_classes |-> <<>>],
      [kind |-> "get_index_with_exclusions", excluded_divisions |-> << <<2>> >>,
       excluded_groups |-> << <<1>>, <<7, 7>> >>, excluded_classes |-> <<>>],
      [kind |-> "get_index_with_exclusions", excluded_divisions |-> <<>>,
       excluded_groups |-> <<>>, excluded_classes |-> << <<1, 1, 2>>, <<1, 1>> >>] }

DirectCalls ==
    { [kind |-> "get_headline_index"] }
    \cup [kind : {"get_index_with_exclusions"},
          excluded_divisions : { <<>>, << <<1>> >>, << <<2>> >>, << <<1>>, <<2>> >>,
                                 << <<9>> >> },
          excluded_groups : { <<>>, << <<1, 1>> >> },
          excluded_classes : { <<>>, << <<1, 1, 2>> >>, << <<1, 1, 1>>, <<1, 1, 2>> >> }]
    \cup UnknownSelectorCalls
    \cup [kind : {"_calculate_laspeyres"}, item_codes : ItemCodeArgs,
          variant_name : {"Custom"}]

\* what the call c returns, or raises, on the engine e
DirectResult(e, c) ==
    CASE c.kind = "get_headline_index" -> GetHeadlineIndex(e)
      [] c.kind = "get_index_with_exclusions" ->
            GetIndexWithExclusions(e, c.excluded_divisions, c.excluded_groups,
                                   c.excluded_classes)
      [] c.kind = "_calculate_laspeyres" ->
            CalculateLaspeyres(e, c.item_codes, c.variant_name)

\* an engine built from a weights directory; no prices loaded yet
InitDirect ==
    /\ weights = WeightsNew
    /\ item_map = BuildItemMap(weights)
    /\ selected_exclusions = NoExclusions
    /\ generated_indices = <<>>
    /\ pc = "Editing"
    /\ lastOp = [op |-> "init"]
    /\ coreIn = NoCall
    /\ coreOut = NoCall
    /\ engine \in {LoadWeights(WeightsDir(fuel)) : fuel \in FuelWeights}
    /\ directIn = NoCall
    /\ directOut = NoCall
    /\ exporter = NoExporter

\* CPIEngine.load_prices
LoadPrices(prices_file) ==
    /\ engine' = [engine EXCEPT !.prices_df = prices_file,
                                !.months = MonthColumns(prices_file)]
    /\ UNCHANGED <<exporter, selected_exclusions, generated_indices, pc, lastOp, coreIn, coreOut,
                   weights, item_map, directIn, directOut>>

\* a direct calculation that leaves its renormalised weights in items_df
DirectCallInPlace(c) ==
    /\ directIn' = c
    /\ directOut' = DirectResult(engine, c)
    /\ engine' = [engine EXCEPT !.items_df =
                     [i \in 1..Len(@) |-> [@[i] EXCEPT !.Weight = 2 * @]]]
    /\ UNCHANGED <<exporter, selected_exclusions, generated_indices, pc, lastOp, coreIn, coreOut,
                   weights, item_map>>

\* one call of get_headline_index, get_index_with_exclusions or
\* _calculate_laspeyres: the frames it works on are copies
DirectCall(c) ==
    /\ directIn' = c
    /\ directOut' = DirectResult(engine, c)
    /\ UNCHANGED <<exporter, selected_exclusions, generated_indices, pc, lastOp, coreIn, coreOut,
                   weights, item_map, engine>>

NextDirect ==
    \/ \E prices_file \in PriceFiles : LoadPrices(prices_file)
    \/ \E c \in DirectCalls : DirectCall(c)

SpecDirect == InitDirect /\ [][NextDirect]_vars

-----------------------------------------------------------------------------
(* CPIWeightsExporter (src/weights_exporter_fresh.py): the weight sheet is
   deduplicated, the four upper levels are built bottom-up from the items,
   and the five tables are written to the directory the engine reads.

   Each of the three steps is a public method returning True or False;
   export_all calls them in turn and stops at the first that returns
   False.  A field that holds no table yet is None.

   A sheet is the list of its rows, the columns already named as
   load_and_deduplicate renames them.  groupby orders its groups by key;
   the codes of one level are ordered component by component. *)

\* most rows of a sheet
MaxSheetRows == 3

SheetRow(item_code, item_name, subclass_code, class_code, share) ==
    [Item_Code |-> item_code, Item_Name |-> item_name,
     Subclass_Code |-> subclass_code,
     Subclass_Name |-> IF subclass_code = <<1, 1, 1, 1>> THEN "Rice"
                       ELSE IF subclass_code = <<1, 1, 2, 1>> THEN "Wheat" ELSE "Kerosene",
     Class_Code |-> class_code,
     Class_Name |-> IF class_code = <<1, 1, 1>> THEN "Rice"
                    ELSE IF class_code = <<1, 1, 2>> THEN "Wheat" ELSE "Kerosene",
     Group_Code |-> SubSeq(class_code, 1, 2),
     Group_Name |-> IF class_code[1] = 1 THEN "Cereals" ELSE "Liquid fuels",
     Division_Code |-> SubSeq(class_code, 1, 1),
     Division_Name |-> IF class_code[1] = 1 THEN "Food" ELSE "Fuel",
     Share_in_All_India |-> share]

\* the rows a sheet is made of: four items, a second row for the item
\* code of the first, and an item whose class is not the class of the
\* other item of its subclass
SheetRowPool ==
    { SheetRow(<<1, 1, 1, 1, 1>>, "Basmati", <<1, 1, 1, 1>>, <<1, 1, 1>>, 40),
      SheetRow(<<1, 1, 1, 1, 2>>, "Ponni", <<1, 1, 1, 1>>, <<1, 1, 1>>, 10),
      SheetRow(<<1, 1, 2, 1, 1>>, "Atta", <<1, 1, 2, 1>>, <<1, 1, 2>>, 20),
      SheetRow(<<2, 1, 1, 1, 1>>, "Kerosene", <<2, 1, 1, 1>>, <<2, 1, 1>>, 40),
      SheetRow(<<1, 1, 1, 1, 1>>, "Basmati", <<1, 1, 1, 1>>, <<1, 1, 1>>, 45),
      SheetRow(<<1, 1, 2, 1, 2>>, "Maida", <<1, 1, 2, 1>>, <<1, 1, 1>>, 5) }

Sheets == UNION { [1..n -> SheetRowPool] : n \in 1..MaxSheetRows }

RECURSIVE IntSum(_)
IntSum(s) == IF s = <<>> THEN 0 ELSE IntSum(SubSeq(s, 1, Len(s) - 1)) + s[Len(s)]

\* a sorts before b (codes of one level have the same number of components)
CodeLess(a, b) ==
    \E i \in 1..Len(a) : a[i] < b[i] /\ \A j \in 1..(i - 1) : a[j] = b[j]

RECURSIVE SortCodes(_)
\* the group keys of a groupby, in the order of its result
SortCodes(codes) ==
    IF codes = {} THEN <<>>
    ELSE LET least == CHOOSE x \in codes : \A y \in codes \ {x} : CodeLess(x, y)
         IN  <<least>> \o SortCodes(codes \ {least})

\* df_raw.drop_duplicates(subset=['Item Code'], keep='first')
DropDuplicates(df_raw) ==
    SelectIdx(df_raw, LAMBDA i : \A j \in 1..(i - 1) :
                                    df_raw[j].Item_Code # df_raw[i].Item_Code, 1)

\* the Weight column of the rows of table whose column key holds code, summed
SumWhere(table, key, code, column) ==
    LET rows == RowsWhere(table, key, code)
    IN  IntSum([i \in 1..Len(rows) |-> rows[i][column]])

\* groupby(key)[column].first()
FirstWhere(table, key, code, column) == RowsWhere(table, key, code)[1][column]

\* "Subclass level"
SubclassTable(items_unique) ==
    LET keys == SortCodes(Codes(items_unique, "Subclass_Code"))
    IN  [k \in 1..Len(keys) |->
            [Subclass_Code |-> keys[k],
             Subclass_Name |-> FirstWhere(items_unique, "Subclass_Code", keys[k], "Subclass_Name"),
             Class_Code |-> FirstWhere(items_unique, "Subclass_Code", keys[k], "Class_Code"),
             Class_Name |-> FirstWhere(items_unique, "Subclass_Code", keys[k], "Class_Name"),
             Weight |-> SumWhere(items_unique, "Subclass_Code", keys[k],
                                 "Share_in_All_India")]]

\* "Class level": the subclass weights summed by class, merged with the
\* name and group code of the first item of the class
ClassTable(items_unique, subclass_df) ==
    LET keys == SortCodes(Codes(subclass_df, "Class_Code"))
    IN  [k \in 1..Len(keys) |->
            [Class_Code |-> keys[k],
             Class_Name |-> FirstWhere(items_unique, "Class_Code", keys[k], "Class_Name"),
             Group_Code |-> FirstWhere(items_unique, "Class_Code", keys[k], "Group_Code"),
             Weight |-> SumWhere(subclass_df, "Class_Code", keys[k], "Weight")]]

\* the group weight taken from the first class of the group
GroupTableFirstClass(items_unique, class_df) ==
    LET keys == SortCodes(Codes(class_df, "Group_Code"))
    IN  [k \in 1..Len(keys) |->
            [Group_Code |-> keys[k],
             Group_Name |-> FirstWhere(items_unique, "Group_Code", keys[k], "Group_Name"),
             Division_Code |-> FirstWhere(items_unique, "Group_Code", keys[k],
                                          "Division_Code"),
             Weight |-> FirstWhere(class_df, "Group_Code", keys[k], "Weight")]]

\* "Group level"
GroupTable(items_unique, class_df) ==
    LET keys == SortCodes(Codes(class_df, "Group_Code"))
    IN  [k \in 1..Len(keys) |->
            [Group_Code |-> keys[k],
             Group_Name |-> FirstWhere(items_unique, "Group_Code", keys[k], "Group_Name"),
             Division_Code |-> FirstWhere(items_unique, "Group_Code", keys[k],
                                          "Division_Code"),
             Weight |-> SumWhere(class_df, "Group_Code", keys[k], "Weight")]]

\* "Division level"
DivisionTable(items_unique, group_df) ==
    LET keys == SortCodes(Codes(group_df, "Division_Code"))
    IN  [k \in 1..Len(keys) |->
            [Division_Code |-> keys[k],
             Division_Name |-> FirstWhere(items_unique, "Division_Code", keys[k],
                                          "Division_Name"),
             Weight |-> SumWhere(group_df, "Division_Code", keys[k], "Weight")]]

\* a table with the column Include_in_CPI = True added
Included(table) ==
    [i \in 1..Len(table) |->
        [c \in DOMAIN table[i] \cup {"Include_in_CPI"} |->
            IF c = "Include_in_CPI" THEN TRUE ELSE table[i][c]]]

\* a data frame held by a field that is None until it is assigned
Frame(rows) == [kind |-> "frame", rows |-> rows]

\* items.csv as export_csvs writes it
ItemsExport(items_unique) ==
    Included([i \in 1..Len(items_unique) |->
                 [Item_Code |-> items_unique[i].Item_Code,
                  Item_Name |-> items_unique[i].Item_Name,
                  Subclass_Code |-> items_unique[i].Subclass_Code,
                  Weight |-> items_unique[i].Share_in_All_India]])

\* the five files export_csvs writes
ExportedDir(x) ==
    [items_df |-> ItemsExport(x.items_unique.rows),
     subclasses_df |-> Included(x.subclass_df.rows),
     classes_df |-> Included(x.class_df.rows),
     groups_df |-> Included(x.group_df.rows),
     divisions_df |-> Included(x.division_df.rows)]

\* the output directory as mkdir leaves it: no file in it
EmptyDir == [kind |-> "empty directory"]

\* CPIWeightsExporter.__init__ on an Excel file holding sheet
NewExporter(sheet) ==
    [kind |-> "exporter", sheet |-> sheet,
     df_raw |-> None, items_unique |-> None, subclass_df |-> None,
     class_df |-> None, group_df |-> None, division_df |-> None,
     output_dir |-> EmptyDir]

\* the exporter after the body of load_and_deduplicate: the sheet is read,
\* its columns renamed and the duplicates dropped; the selection of
\* 'Share_in_All_India**', a name no column has once the asterisks are
\* stripped, then raises KeyError, which the method catches
AfterLoad(x) ==
    [x EXCEPT !.df_raw = Frame(x.sheet),
              !.items_unique = Frame(DropDuplicates(x.sheet))]

\* CPIWeightsExporter.load_and_deduplicate: returns False
LoadAndDeduplicate ==
    /\ exporter.kind = "exporter"
    /\ exporter' = AfterLoad(exporter)
    /\ lastOp' = [op |-> "load_and_deduplicate", ok |-> FALSE]
    /\ UNCHANGED <<selected_exclusions, generated_indices, pc, coreIn, coreOut,
                   weights, item_map, engine, directIn, directOut>>

\* CPIWeightsExporter.build_hierarchy: returns False, and assigns nothing,
\* when items_unique is None
ExporterBuildHierarchy ==
    /\ exporter.kind = "exporter"
    /\ IF exporter.items_unique = None
       THEN /\ exporter' = exporter
            /\ lastOp' = [op |-> "build_hierarchy", ok |-> FALSE]
       ELSE LET items_unique == exporter.items_unique.rows
                subclass_df == SubclassTable(items_unique)
                class_df == ClassTable(items_unique, subclass_df)
                group_df == GroupTable(items_unique, class_df)
                division_df == DivisionTable(items_unique, group_df)
            IN  /\ exporter' = [exporter EXCEPT !.subclass_df = Frame(subclass_df),
                                                !.class_df = Frame(class_df),
                                                !.group_df = Frame(group_df),
                                                !.division_df = Frame(division_df)]
                /\ lastOp' = [op |-> "build_hierarchy", ok |-> TRUE]
    /\ UNCHANGED <<selected_exclusions, generated_indices, pc, coreIn, coreOut,
                   weights, item_map, engine, directIn, directOut>>

\* CPIWeightsExporter.export_csvs: items.csv is written before the method
\* fails on a level that was never built
ExportCsvs ==
    /\ exporter.kind = "exporter"
    /\ IF exporter.items_unique = None
       THEN /\ exporter' = exporter
            /\ lastOp' = [op |-> "export_csvs", ok |-> FALSE]
       ELSE IF exporter.subclass_df = None
       THEN /\ exporter' = [exporter EXCEPT !.output_dir =
                                [items_df |-> ItemsExport(exporter.items_unique.rows)]]
            /\ lastOp' = [op |-> "export_csvs", ok |-> FALSE]
       ELSE /\ exporter' = [exporter EXCEPT !.output_dir = ExportedDir(exporter)]
            /\ lastOp' = [op |-> "export_csvs", ok |-> TRUE]
    /\ UNCHANGED <<selected_exclusions, generated_indices, pc, coreIn, coreOut,
                   weights, item_map, engine, directIn, directOut>>

\* CPIWeightsExporter.export_all: load_and_deduplicate returns False, so
\* neither build_hierarchy nor export_csvs is called
ExportAll ==
    /\ exporter.kind = "exporter"
    /\ exporter' = AfterLoad(exporter)
    /\ lastOp' = [op |-> "export_all", ok |-> FALSE]
    /\ UNCHANGED <<selected_exclusions, generated_indices, pc, coreIn, coreOut,
                   weights, item_map, engine, directIn, directOut>>

-----------------------------------------------------------------------------
(* CPIEngine.__init__ on a weights directory that may lack a file or a
   column.  Every table of the directories below has rows, every division
   has a group and every group a class, so _build_hierarchy reaches each of
   its column accesses. *)

\* table without the column
DropColumn(table, column) ==
    [i \in 1..Len(table) |->
        [c \in DOMAIN table[i] \ {column} |-> table[i][c]]]

\* dir without the file
DropFile(dir, file) == [f \in DOMAIN dir \ {file} |-> dir[f]]

\* directories written by hand: a complete one; items.csv without Weight;
\* divisions.csv without Division_Name; the class Wheat (of the group
\* Cereals, weight 6) with weight 9; no subclasses.csv
HandWrittenDirs ==
    { WeightsDir(4),
      [WeightsDir(4) EXCEPT !.items_df = DropColumn(@, "Weight")],
      [WeightsDir(4) EXCEPT !.divisions_df = DropColumn(@, "Division_Name")],
      [WeightsDir(4) EXCEPT !.classes_df[2].Weight = 9, !.subclasses_df[2].Weight = 9],
      DropFile(WeightsDir(4), "subclasses_df") }

\* the files _load_weights reads
WeightFiles == {"items_df", "subclasses_df", "classes_df", "groups_df", "divisions_df"}

\* the columns _build_hierarchy reads from each table
BuildColumns ==
    [divisions_df |-> {"Division_Code", "Division_Name", "Weight"},
     groups_df |-> {"Division_Code", "Group_Code", "Group_Name", "Weight"},
     classes_df |-> {"Group_Code", "Class_Code", "Class_Name", "Weight"},
     subclasses_df |-> {"Class_Code", "Subclass_Code"},
     items_df |-> {"Subclass_Code", "Item_Code"}]

\* the columns of a table that has rows
Columns(table) == DOMAIN table[1]

\* what CPIEngine(weights_dir) raises, or None when it returns
ConstructorOutcome(dir) ==
    IF ~(WeightFiles \subseteq DOMAIN dir)
    THEN \* pd.read_csv raises FileNotFoundError, re-raised as Exception
         Raise("Exception: Missing weight file")
    ELSE IF \E f \in WeightFiles : ~(BuildColumns[f] \subseteq Columns(dir[f]))
    THEN \* row['...'] or df['...'] on a column the table does not have
         Raise("KeyError")
    ELSE None

\* engine = CPIEngine(weights_dir): the name is bound only when the
\* constructor returns
Construct(dir) ==
    /\ engine = NoEngine
    /\ directIn' = [kind |-> "__init__", weights_dir |-> dir]
    /\ directOut' = ConstructorOutcome(dir)
    /\ engine' = IF ConstructorOutcome(dir) = None THEN LoadWeights(dir) ELSE NoEngine
    /\ lastOp' = [op |-> "CPIEngine"]
    /\ UNCHANGED <<selected_exclusions, generated_indices, pc, coreIn, coreOut,
                   weights, item_map, exporter>>

\* an exporter about to run on a sheet; no engine yet
InitExport ==
    /\ weights = WeightsNew
    /\ item_map = BuildItemMap(weights)
    /\ selected_exclusions = NoExclusions
    /\ generated_indices = <<>>
    /\ pc = "Editing"
    /\ lastOp = [op |-> "init"]
    /\ coreIn = NoCall
    /\ coreOut = NoCall
    /\ engine = NoEngine
    /\ directIn = NoCall
    /\ directOut = NoCall
    /\ exporter \in {NoExporter} \cup {NewExporter(sheet) : sheet \in Sheets}

\* the weights directory a session has: the one its exporter writes to, or
\* one written by hand when no exporter ran
WeightsDirs == IF exporter = NoExporter THEN HandWrittenDirs ELSE {exporter.output_dir}

\* the methods of the exporter, and an engine built on the directory it
\* wrote or on a directory written by hand
NextExport ==
    \/ LoadAndDeduplicate
    \/ ExporterBuildHierarchy
    \/ ExportCsvs
    \/ ExportAll
    \/ \E dir \in WeightsDirs : Construct(dir)

SpecExport == InitExport /\ [][NextExport]_vars

-----------------------------------------------------------------------------
(* CPIEngine.calculate_core_with_manual_exclusions

   The arguments are numbers, as the signature declares them (float), and
   every exclusion carries its five keys, so the float() conversions at the
   top of the function and in the exclusion loop never raise.

   A number of the model is the exact value the caller wrote.  The function
   computes with floats: a value that is a binary fraction is held exactly,
   any other (0.7, 115.45) is rounded when it is converted and again in each
   sum and product it enters.  Rounding moves a value by one part in 10^16,
   which decides a comparison only between values that are equal as
   written.  Where the code compares such values the model takes the
   direction of the rounding as a choice (Roundings), never one outcome: a
   rounded sum of weights equal to the headline weight may compare below
   it, and a rounded difference that is zero as written may be not zero. *)

ErrHeadlineIndex == "Headline index values must be positive"
ErrHeadlineWeight == "Headline weight values must be positive"
ErrNoExclusions == "No valid exclusions provided"
ErrOldWeight == "Total excluded old weight must be less than headline weight"
ErrNewWeight == "Total excluded new weight must be less than headline weight"

\* an exclusion is skipped only when both weights are negative
IsEmptyExclusionStrict(excl) ==
    RatLt(excl.old_weight, R(0)) /\ RatLt(excl.new_weight, R(0))

\* if old_wt <= 0 and new_wt <= 0: continue
IsEmptyExclusion(excl) ==
    RatLeq(excl.old_weight, R(0)) /\ RatLeq(excl.new_weight, R(0))

RECURSIVE ParseExclusions(_, _, _)
\* the loop "for excl in exclusions", acc holding the four running sums and
\* the list valid_exclusions
ParseExclusions(exclusions, k, acc) ==
    IF k > Len(exclusions) THEN acc
    ELSE LET excl == exclusions[k]
         IN  IF IsEmptyExclusion(excl)
             THEN ParseExclusions(exclusions, k + 1, acc)
             ELSE ParseExclusions(exclusions, k + 1,
                    [weighted_sum_old |->
                        RatAdd(acc.weighted_sum_old, RatMul(excl.old_index, excl.old_weight)),
                     weighted_sum_new |->
                        RatAdd(acc.weighted_sum_new, RatMul(excl.new_index, excl.new_weight)),
                     total_old_weight |-> RatAdd(acc.total_old_weight, excl.old_weight),
                     total_new_weight |-> RatAdd(acc.total_new_weight, excl.new_weight),
                     valid_exclusions |-> Append(acc.valid_exclusions, excl)])

\* x is a binary fraction: the float made from it holds exactly x
Representable(x) == \E k \in 0..30 : x.d = 2^k

\* the directions rounding can take in a call: old_below (new_below), the
\* rounded sum of the old (new) weights compares below the headline weight
\* it equals as written; old_index_off, the difference headline index x
\* weight - sum of index x weight of the old period, zero as written, is
\* not zero as computed
Roundings(headline_old_index, headline_old_weight, headline_new_weight, acc) ==
    LET ex == acc.valid_exclusions
        \* a sum the additions have rounded: it has two terms or more that
        \* are not zero, one of them no binary fraction
        RoundedSum(terms) ==
            /\ Cardinality({i \in 1..Len(terms) : ~RatIsZero(terms[i])}) >= 2
            /\ \E i \in 1..Len(terms) : ~RatIsZero(terms[i]) /\ ~Representable(terms[i])
        old_weights == [i \in 1..Len(ex) |-> ex[i].old_weight]
        new_weights == [i \in 1..Len(ex) |-> ex[i].new_weight]
        rounded_products ==
            \/ ~Representable(headline_old_index) \/ ~Representable(headline_old_weight)
            \/ \E i \in 1..Len(ex) :
                  /\ ~RatIsZero(ex[i].old_weight)
                  /\ ~Representable(ex[i].old_index) \/ ~Representable(ex[i].old_weight)
        difference_old == RatSub(RatMul(headline_old_index, headline_old_weight),
                                 acc.weighted_sum_old)
        directions ==
            [old_below : IF acc.total_old_weight = headline_old_weight /\ RoundedSum(old_weights)
                         THEN BOOLEAN ELSE {FALSE},
             new_below : IF acc.total_new_weight = headline_new_weight /\ RoundedSum(new_weights)
                         THEN BOOLEAN ELSE {FALSE},
             old_index_off : IF RatIsZero(difference_old) /\ rounded_products
                             THEN BOOLEAN ELSE {FALSE}]
    IN  \* the same additions on the same weights round the same way
        { r \in directions :
            (old_weights = new_weights /\ headline_old_weight = headline_new_weight)
                => r.old_below = r.new_below }

\* every comparison comes out as it does on the values as written
NoRounding == [old_below |-> FALSE, new_below |-> FALSE, old_index_off |-> FALSE]

\* a float made of rounding error only, a value the arguments as written do
\* not determine: the remaining weight left by a sum that rounding put
\* below the headline weight, and every quotient by it
Undetermined == [n |-> 0, d |-> 0, undetermined |-> TRUE]

\* the checks of the function, each appending its message
ValidationErrors(headline_old_index, headline_old_weight, headline_new_index, headline_new_weight, acc, rounding) ==
    (IF RatLeq(headline_old_index, R(0)) \/ RatLeq(headline_new_index, R(0))
     THEN <<ErrHeadlineIndex>> ELSE <<>>)
    \o (IF RatLeq(headline_old_weight, R(0)) \/ RatLeq(headline_new_weight, R(0))
        THEN <<ErrHeadlineWeight>> ELSE <<>>)
    \o (IF acc.valid_exclusions = <<>> THEN <<ErrNoExclusions>> ELSE <<>>)
    \o (IF RatLeq(headline_old_weight, acc.total_old_weight) /\ ~rounding.old_below
        THEN <<ErrOldWeight>> ELSE <<>>)
    \o (IF RatLeq(headline_new_weight, acc.total_new_weight) /\ ~rounding.new_below
        THEN <<ErrNewWeight>> ELSE <<>>)

\* the change taken as a share of the new value
InflationOverNew(old, new) == RatMul(RatDiv(RatSub(new, old), new), R(100))

\* ((new - old) / old) * 100, old # 0
Inflation(old, new) == RatMul(RatDiv(RatSub(new, old), old), R(100))

\* the loop that sets excl['inflation_rate'] on each validated exclusion
ExclusionInflation(excl) ==
    IF RatLt(R(0), excl.old_index)
    THEN Inflation(excl.old_index, excl.new_index)
    ELSE R(0)

WithInflation(excl) ==
    [name |-> excl.name,
     old_index |-> excl.old_index, old_weight |-> excl.old_weight,
     new_index |-> excl.new_index, new_weight |-> excl.new_weight,
     inflation_rate |-> ExclusionInflation(excl)]

\* (headline index x headline weight - sum of index x weight) / remaining weight
ExIndex(headline_index, headline_weight, weighted_sum_exclusions, total_excluded_weight) ==
    RatDiv(RatSub(RatMul(headline_index, headline_weight), weighted_sum_exclusions),
           RatSub(headline_weight, total_excluded_weight))

\* the accumulators before the loop over the exclusions
NoneParsed ==
    [weighted_sum_old |-> R(0), weighted_sum_new |-> R(0),
     total_old_weight |-> R(0), total_new_weight |-> R(0),
     valid_exclusions |-> <<>>]

\* e is the engine the method is called on (self); rounding is one of the
\* Roundings of the call
CalculateCore(e, headline_old_index, headline_old_weight, headline_new_index, headline_new_weight, exclusions, scenario_name, rounding) ==
    LET acc == ParseExclusions(exclusions, 1, NoneParsed)
        errors == ValidationErrors(headline_old_index, headline_old_weight,
                                   headline_new_index, headline_new_weight, acc, rounding)
        difference_old == RatSub(RatMul(headline_old_index, headline_old_weight),
                                 acc.weighted_sum_old)
        remaining_old_weight ==
            IF rounding.old_below THEN Undetermined
            ELSE RatSub(headline_old_weight, acc.total_old_weight)
        remaining_new_weight ==
            IF rounding.new_below THEN Undetermined
            ELSE RatSub(headline_new_weight, acc.total_new_weight)
        cpi_ex_old_index ==
            IF rounding.old_below \/ rounding.old_index_off THEN Undetermined
            ELSE ExIndex(headline_old_index, headline_old_weight,
                         acc.weighted_sum_old, acc.total_old_weight)
        cpi_ex_new_index ==
            IF rounding.new_below THEN Undetermined
            ELSE ExIndex(headline_new_index, headline_new_weight,
                         acc.weighted_sum_new, acc.total_new_weight)
        headline_inflation == Inflation(headline_old_index, headline_new_index)
        cpi_ex_inflation ==
            IF rounding # NoRounding THEN Undetermined
            ELSE Inflation(cpi_ex_old_index, cpi_ex_new_index)
    IN  IF errors # <<>>
        THEN [kind |-> "result", success |-> FALSE, errors |-> errors,
              scenario_name |-> IF scenario_name = "" THEN "Unknown" ELSE scenario_name]
        ELSE IF RatIsZero(difference_old) /\ ~rounding.old_index_off
        THEN \* cpi_ex_old_index is 0.0, and a float division by zero raises
             [kind |-> "raise", error |-> "ZeroDivisionError"]
        ELSE [kind |-> "result", success |-> TRUE,
              scenario_name |-> IF scenario_name = "" THEN "CPI Ex. Items" ELSE scenario_name,
              headline_old_index |-> headline_old_index,
              headline_new_index |-> headline_new_index,
              headline_old_weight |-> headline_old_weight,
              headline_new_weight |-> headline_new_weight,
              headline_inflation |-> headline_inflation,
              old_index |-> cpi_ex_old_index,
              new_index |-> cpi_ex_new_index,
              old_weight |-> remaining_old_weight,
              new_weight |-> remaining_new_weight,
              inflation_rate |-> cpi_ex_inflation,
              difference_from_headline |->
                  IF rounding # NoRounding THEN Undetermined
                  ELSE RatSub(cpi_ex_inflation, headline_inflation),
              total_excluded_old_weight |-> acc.total_old_weight,
              total_excluded_new_weight |-> acc.total_new_weight,
              remaining_old_weight |-> remaining_old_weight,
              remaining_new_weight |-> remaining_new_weight,
              excluded_items_count |-> Len(acc.valid_exclusions),
              remaining_items_count |-> Len(e.items_df),
              exclusions |-> [i \in 1..Len(acc.valid_exclusions) |->
                                 WithInflation(acc.valid_exclusions[i])],
              errors |-> <<>>]

Excl(name, old_index, old_weight, new_index, new_weight) ==
    [name |-> name, old_index |-> old_index, old_weight |-> old_weight,
     new_index |-> new_index, new_weight |-> new_weight]

ExclusionPool ==
    { Excl("Food", R(105), R(40), R(130), R(40)),
      Excl("Fuel", R(110), R(10), R(120), R(15)),
      Excl("Everything", R(100), R(100), R(115), R(100)),
      Excl("Blank", R(100), R(0), R(100), R(0)),
      Excl("Negative", R(100), R(-5), R(100), R(-5)),
      Excl("New entrant", R(0), R(0), R(120), R(20)),
      Excl("Rebate", R(90), R(-10), R(95), R(30)),
      Excl("Spike", R(250), R(40), R(130), R(40)),
      Excl("Credit", R(-50), R(10), R(100), R(10)) }

ExclusionLists == UNION { [1..n -> ExclusionPool] : n \in 0..MaxExcl }

HeadlineOldIndexes == {R(0), R(100)}
HeadlineNewIndexes == {R(-1), Rat(11545, 100)}
HeadlineOldWeights == {R(0), R(100)}
HeadlineNewWeights == {R(0), R(50), R(100)}
ScenarioNames == {"", "CPI Ex. Food"}

CoreCalls ==
    [kind : {"call"},
     headline_old_index : HeadlineOldIndexes, headline_old_weight : HeadlineOldWeights,
     headline_new_index : HeadlineNewIndexes, headline_new_weight : HeadlineNewWeights,
     exclusions : ExclusionLists, scenario_name : ScenarioNames]

\* a weights directory that holds the Food division only
WeightsDirFoodOnly ==
    LET dir == WeightsDir(4)
        InFood(code) == code[1] = 1
    IN  [divisions_df |-> SelectSeq(dir.divisions_df, LAMBDA r : InFood(r.Division_Code)),
         groups_df |-> SelectSeq(dir.groups_df, LAMBDA r : InFood(r.Group_Code)),
         classes_df |-> SelectSeq(dir.classes_df, LAMBDA r : InFood(r.Class_Code)),
         subclasses_df |-> SelectSeq(dir.subclasses_df, LAMBDA r : InFood(r.Subclass_Code)),
         items_df |-> SelectSeq(dir.items_df, LAMBDA r : InFood(r.Item_Code))]

\* load_prices(prices_file) on the engine e
WithPrices(e, prices_file) ==
    [e EXCEPT !.prices_df = prices_file, !.months = MonthColumns(prices_file)]

\* the price file that has a row for every item and no empty cell
CompletePriceFile == CHOOSE f \in PriceFiles :
    Len(f) = 4 /\ \A i \in 1..Len(f) : \A m \in 1..Len(f[i].cells) : ~IsNaN(f[i].cells[m])

\* the engines the calculator is called on: built from different weight
\* directories, with and without prices loaded
CoreEngines ==
    { LoadWeights(WeightsDir(4)),
      WithPrices(LoadWeights(WeightsDir(4)), CompletePriceFile),
      LoadWeights(WeightsDirFoodOnly) }

\* an engine whose weights are loaded, about to be called with coreIn
InitCore ==
    /\ weights = WeightsNew
    /\ item_map = BuildItemMap(weights)
    /\ engine \in CoreEngines
    /\ directIn = NoCall
    /\ directOut = NoCall
    /\ exporter = NoExporter
    /\ selected_exclusions = NoExclusions
    /\ generated_indices = <<>>
    /\ pc = "Editing"
    /\ lastOp = [op |-> "init"]
    /\ coreIn \in CoreCalls
    /\ coreOut = NoCall

\* the call returns (or raises)
CalculateCoreCall ==
    /\ coreIn.kind = "call"
    /\ coreOut = NoCall
    /\ \E rounding \in Roundings(coreIn.headline_old_index, coreIn.headline_old_weight,
                                  coreIn.headline_new_weight,
                                  ParseExclusions(coreIn.exclusions, 1, NoneParsed)) :
          coreOut' = CalculateCore(engine,
                                   coreIn.headline_old_index, coreIn.headline_old_weight,
                                   coreIn.headline_new_index, coreIn.headline_new_weight,
                                   coreIn.exclusions, coreIn.scenario_name, rounding)
    /\ UNCHANGED <<exporter, selected_exclusions, generated_indices, pc, lastOp, coreIn,
                 weights, item_map, engine, directIn, directOut>>

NextCore == CalculateCoreCall

SpecCore == InitCore /\ [][NextCore]_vars

\* calls with weights and indexes written in tenths, beside calls on binary
\* fractions: a headline of weight 0.8 or 0.75 against components of weight
\* 0.7, 0.1, 0.5 and 0.25, one of weight 0.9 against 0.6 and 0.3, and one
\* of index 0.3 and weight 3 against a component of index 0.9 and weight 1
DecimalCalls ==
    LET ListsOver(pool) == UNION { [1..n -> pool] : n \in 0..MaxExcl }
        Call(old_index, old_weight, new_index, new_weight, exclusions) ==
            [kind |-> "call",
             headline_old_index |-> old_index, headline_old_weight |-> old_weight,
             headline_new_index |-> new_index, headline_new_weight |-> new_weight,
             exclusions |-> exclusions, scenario_name |-> "x"]
    IN  { Call(R(100), w, R(110), w, ex) :
            w \in {Rat(8, 10), Rat(3, 4)},
            ex \in ListsOver({ Excl("A", R(100), Rat(7, 10), R(110), Rat(7, 10)),
                               Excl("B", R(100), Rat(1, 10), R(110), Rat(1, 10)),
                               Excl("Half", R(100), Rat(1, 2), R(110), Rat(1, 2)),
                               Excl("Quarter", R(100), Rat(1, 4), R(110), Rat(1, 4)) }) }
        \cup
        { Call(R(100), Rat(9, 10), R(120), Rat(9, 10), ex) :
            ex \in ListsOver({ Excl("A", R(90), Rat(6, 10), R(100), Rat(6, 10)),
                               Excl("B", R(95), Rat(3, 10), R(105), Rat(3, 10)) }) }
        \cup
        { Call(Rat(3, 10), R(3), R(1), R(3), ex) :
            ex \in ListsOver({ Excl("A", Rat(9, 10), R(1), R(1), R(1)) }) }

\* the calculator called with decimal fractions
InitCoreDecimal ==
    /\ weights = WeightsNew
    /\ item_map = BuildItemMap(weights)
    /\ engine \in CoreEngines
    /\ directIn = NoCall
    /\ directOut = NoCall
    /\ exporter = NoExporter
    /\ selected_exclusions = NoExclusions
    /\ generated_indices = <<>>
    /\ pc = "Editing"
    /\ lastOp = [op |-> "init"]
    /\ coreIn \in DecimalCalls
    /\ coreOut = NoCall

SpecCoreDecimal == InitCoreDecimal /\ [][NextCore]_vars

-----------------------------------------------------------------------------
(* The two exclusion resolvers on one weights directory: the wizard's
   _get_excluded_item_codes, by name, and the engine's
   get_index_with_exclusions, by code.  Both programs read weights_new/. *)

\* a weights directory whose hierarchy branches at every level: division
\* Food holds two groups, group Cereals two classes, class Rice two items
WeightsDirBranching ==
    [divisions_df |->
        << [Division_Code |-> <<1>>, Division_Name |-> "Food", Weight |-> 8],
           [Division_Code |-> <<2>>, Division_Name |-> "Fuel", Weight |-> 2] >>,
     groups_df |->
        << [Group_Code |-> <<1, 1>>, Group_Name |-> "Cereals",
            Division_Code |-> <<1>>, Weight |-> 6],
           [Group_Code |-> <<1, 2>>, Group_Name |-> "Pulses",
            Division_Code |-> <<1>>, Weight |-> 2],
           [Group_Code |-> <<2, 1>>, Group_Name |-> "Liquid fuels",
            Division_Code |-> <<2>>, Weight |-> 2] >>,
     classes_df |->
        << [Class_Code |-> <<1, 1, 1>>, Class_Name |-> "Rice",
            Group_Code |-> <<1, 1>>, Weight |-> 4],
           [Class_Code |-> <<1, 1, 2>>, Class_Name |-> "Wheat",
            Group_Code |-> <<1, 1>>, Weight |-> 2],
           [Class_Code |-> <<2, 1, 1>>, Class_Name |-> "Kerosene",
            Group_Code |-> <<2, 1>>, Weight |-> 2],
           [Class_Code |-> <<1, 2, 1>>, Class_Name |-> "Gram",
            Group_Code |-> <<1, 2>>, Weight |-> 2] >>,
     subclasses_df |->
        << [Subclass_Code |-> <<1, 1, 1, 1>>, Subclass_Name |-> "Rice",
            Class_Code |-> <<1, 1, 1>>, Weight |-> 4],
           [Subclass_Code |-> <<1, 1, 2, 1>>, Subclass_Name |-> "Wheat",
            Class_Code |-> <<1, 1, 2>>, Weight |-> 2],
           [Subclass_Code |-> <<2, 1, 1, 1>>, Subclass_Name |-> "Kerosene",
            Class_Code |-> <<2, 1, 1>>, Weight |-> 2],
           [Subclass_Code |-> <<1, 2, 1, 1>>, Subclass_Name |-> "Gram",
            Class_Code |-> <<1, 2, 1>>, Weight |-> 2] >>,
     items_df |->
        << [Item_Code |-> <<1, 1, 1, 1, 1>>, Item_Name |-> "Basmati",
            Subclass_Code |-> <<1, 1, 1, 1>>, Weight |-> 3],
           [Item_Code |-> <<1, 1, 1, 1, 2>>, Item_Name |-> "Ponni",
            Subclass_Code |-> <<1, 1, 1, 1>>, Weight |-> 1],
           [Item_Code |-> <<1, 1, 2, 1, 1>>, Item_Name |-> "Atta",
            Subclass_Code |-> <<1, 1, 2, 1>>, Weight |-> 2],
           [Item_Code |-> <<2, 1, 1, 1, 1>>, Item_Name |-> "Kerosene oil",
            Subclass_Code |-> <<2, 1, 1, 1>>, Weight |-> 2],
           [Item_Code |-> <<1, 2, 1, 1, 1>>, Item_Name |-> "Chana",
            Subclass_Code |-> <<1, 2, 1, 1>>, Weight |-> 2] >>]

\* the calls of get_index_with_exclusions on that directory: at each level
\* no code, one code, or codes of two branches
ResolverCalls ==
    [kind : {"get_index_with_exclusions"},
     excluded_divisions : { <<>>, << <<1>> >>, << <<2>> >> },
     excluded_groups : { <<>>, << <<1, 1>> >>, << <<1, 2>>, <<2, 1>> >> },
     excluded_classes : { <<>>, << <<1, 1, 2>> >>, << <<1, 1, 1>>, <<1, 2, 1>> >> }]

\* CPIWizard.__init__ and CPIEngine.__init__ on the branching directory,
\* the engine with a price for every item
InitResolvers ==
    LET dir == WeightsDirBranching
        prices_file ==
            << PriceRow(<<1, 1, 1, 1, 1>>, <<100, 110>>),
               PriceRow(<<1, 1, 1, 1, 2>>, <<100, 130>>),
               PriceRow(<<1, 1, 2, 1, 1>>, <<100, 100>>),
               PriceRow(<<2, 1, 1, 1, 1>>, <<100, 105>>),
               PriceRow(<<1, 2, 1, 1, 1>>, <<100, 120>>) >>
    IN  /\ weights = [division |-> dir.divisions_df, group |-> dir.groups_df,
                      class |-> dir.classes_df, item |-> dir.items_df]
        /\ item_map = BuildItemMap(weights)
        /\ selected_exclusions = NoExclusions
        /\ generated_indices = <<>>
        /\ pc = "Editing"
        /\ lastOp = [op |-> "init"]
        /\ coreIn = NoCall
        /\ coreOut = NoCall
        /\ engine = WithPrices(LoadWeights(dir), prices_file)
        /\ directIn = NoCall
        /\ directOut = NoCall
        /\ exporter = NoExporter

\* the wizard's menu choices that edit the exclusions, the first or the
\* last row of a table picked at a time, and one call of the engine
NextResolvers ==
    \/ \E level \in Levels, indices \in {<<0>>, <<-1>>} : PickExclusion(level, indices)
    \/ Reset
    \/ \E c \in ResolverCalls : directIn = NoCall /\ DirectCall(c)

SpecResolvers == InitResolvers /\ [][NextResolvers]_vars

-----------------------------------------------------------------------------
(* Properties of the session (checked under Spec) *)

\* the membership of the four exclusion collections
Members(excl) == [l \in Levels |-> Range(excl[l])]

\* frame carries the tag name on every one of its rows, and has rows
TaggedWith(frame, name) ==
    /\ frame.rows # <<>>
    /\ \A i \in 1..Len(frame.rows) : frame.rows[i].division = name

\* the step just taken is a calculation that produced a frame
CalculateSucceeded ==
    pc = "Editing" /\ lastOp'.op = "calculate" /\ lastOp'.ok

\* the step just taken is a calculation that produced no frame
CalculateFailed ==
    pc = "Editing" /\ lastOp'.op = "calculate" /\ ~lastOp'.ok

\* the step appends one frame, keeps the earlier ones, and reaches Calculated
AppendsOne ==
    /\ Len(generated_indices') = Len(generated_indices) + 1
    /\ SubSeq(generated_indices', 1, Len(generated_indices)) = generated_indices
    /\ pc' = "Calculated"

\* C1 as stated: a successful calculate(name) appends exactly one result
\* tagged with the name that was supplied, keeps the earlier results in
\* order, and moves the session from Editing to Calculated.
C1_TaggedWithSuppliedName ==
    [][CalculateSucceeded =>
          /\ AppendsOne
          /\ TaggedWith(generated_indices'[Len(generated_indices')], lastOp'.input)]_vars

\* C1, amended: a successful calculate(name) appends exactly one result,
\* tagged with the supplied name stripped of surrounding blanks or, when
\* that is empty, with the generated default name "Custom Index (HHMMSS)";
\* it keeps the earlier results in order and moves the session from Editing
\* to Calculated.
C1_AppendsOneTaggedResult ==
    [][CalculateSucceeded =>
          /\ AppendsOne
          /\ LET last == generated_indices'[Len(generated_indices')]
             IN  CASE lastOp'.input = "" ->
                        \E now \in Clock : TaggedWith(last, DefaultName(now))
                   [] lastOp'.input = " Core " -> TaggedWith(last, "Core")
                   [] OTHER -> TaggedWith(last, lastOp'.input)]_vars

\* a second result has just been queued under a supplied name, with
\* exclusions in force
C1_Witness ==
    /\ pc = "Calculated"
    /\ lastOp.op = "calculate" /\ lastOp.ok /\ lastOp.input = "Core"
    /\ Len(generated_indices) = 2
    /\ selected_exclusions # NoExclusions
    /\ TaggedWith(generated_indices[1], DefaultName(1))

\* C2: a calculate with every item excluded appends nothing, keeps the
\* exclusion set, and leaves the session in Editing.
C2_FailedCalculateStaysEditing ==
    [][CalculateFailed =>
          /\ generated_indices' = generated_indices
          /\ selected_exclusions' = selected_exclusions
          /\ pc' = "Editing"]_vars

\* C3: continue_or_finish, the two prompts that follow a calculation: the
\* first clears the four collections iff asked to and keeps the exclusion
\* set exactly when not clearing, the second returns to Editing iff
\* another index is wanted and finishes otherwise; both keep the result
\* list, and the second keeps the exclusions the first left.
C3_ContinueOrFinish ==
    [][/\ (pc = "Calculated" /\ lastOp'.op = "clear") =>
             LET clear_exclusions == lastOp'.clear_ex # "n"
             IN  /\ clear_exclusions => selected_exclusions' = NoExclusions
                 /\ ~clear_exclusions => selected_exclusions' = selected_exclusions
                 /\ pc' = "AskAnother"
                 /\ generated_indices' = generated_indices
       /\ (pc = "AskAnother" /\ lastOp'.op = "continue") =>
             LET want_more == lastOp'.next_step = "y"
             IN  /\ want_more <=> pc' = "Editing"
                 /\ ~want_more <=> pc' = "Finished"
                 /\ selected_exclusions' = selected_exclusions
                 /\ generated_indices' = generated_indices]_vars

\* a further round has started from the exclusions kept from the last one
C3_Witness ==
    /\ lastOp.op = "continue" /\ lastOp.clear_ex = "n" /\ lastOp.next_step = "y"
    /\ pc = "Editing"
    /\ selected_exclusions # NoExclusions
    /\ generated_indices # <<>>

\* the one-index picks that name a row of the level's table
ValidPicks(level) == {i \in 0..2 : i + 1 \in DOMAIN LevelNames(level)}

\* C4: toggling one selector twice restores the membership of all four
\* collections; one toggle flips that selector in its level's collection and
\* changes neither the other selectors, the other levels nor the results.
C4_ToggleTwiceRestores ==
    /\ [](\A level \in Levels : \A i \in ValidPicks(level) :
            LET name == LevelNames(level)[i + 1]
                once == TogglePick(selected_exclusions[level], name)
                twice == TogglePick(once, name)
            IN  /\ Range(twice) = Range(selected_exclusions[level])
                /\ (name \in Range(once)) # (name \in Range(selected_exclusions[level])))
    /\ [][\A level \in Levels : \A i \in ValidPicks(level) :
            LET name == LevelNames(level)[i + 1]
            IN  /\ PickExclusion(level, <<i>>) =>
                     /\ (name \in Range(selected_exclusions'[level]))
                           # (name \in Range(selected_exclusions[level]))
                     /\ Range(selected_exclusions'[level]) \ {name}
                           = Range(selected_exclusions[level]) \ {name}
                     /\ \A l \in Levels \ {level} :
                           selected_exclusions'[l] = selected_exclusions[l]
                     /\ generated_indices' = generated_indices
                     /\ pc' = "Editing"
                /\ PickExclusion(level, <<i, i>>) =>
                     /\ Members(selected_exclusions') = Members(selected_exclusions)
                     /\ generated_indices' = generated_indices]_vars

\* a toggle has just been made, after an earlier round, and the item list
\* shows a name removed and added again
C4_Witness ==
    /\ lastOp.op = "toggle"
    /\ selected_exclusions["item"] = <<"Ponni", "Basmati">>
    /\ selected_exclusions["class"] = <<"Rice">>
    /\ generated_indices # <<>>

\* C5: reset empties the four collections, stays in Editing and keeps the
\* accumulated results.
C5_ResetClearsAll ==
    [][(lastOp'.op = "reset") =>
          /\ pc = "Editing"
          /\ \A l \in Levels : selected_exclusions'[l] = <<>>
          /\ pc' = "Editing"
          /\ generated_indices' = generated_indices]_vars

\* exclusions have just been reset in a session that holds a result
C5_Witness ==
    /\ lastOp.op = "reset"
    /\ pc = "Editing"
    /\ selected_exclusions = NoExclusions
    /\ generated_indices # <<>>

-----------------------------------------------------------------------------
(* Properties of the algebraic calculator (checked under SpecCore) *)

Returned == coreOut # NoCall
Failed == coreOut.kind = "result" /\ ~coreOut.success
Succeeded == coreOut.kind = "result" /\ coreOut.success

HasPositiveWeight(e) == RatLt(R(0), e.old_weight) \/ RatLt(R(0), e.new_weight)

\* the supplied exclusions that carry a positive weight in either period
Counted == SelectSeq(coreIn.exclusions, HasPositiveWeight)

OldWeightOf(e) == e.old_weight
NewWeightOf(e) == e.new_weight
OldWeightedOf(e) == RatMul(e.old_index, e.old_weight)
NewWeightedOf(e) == RatMul(e.new_index, e.new_weight)

SumOver(list, F(_)) == RatSum([i \in 1..Len(list) |-> F(list[i])])

\* the five conditions of the validation
BadHeadlineIndex ==
    RatLeq(coreIn.headline_old_index, R(0)) \/ RatLeq(coreIn.headline_new_index, R(0))
BadHeadlineWeight ==
    RatLeq(coreIn.headline_old_weight, R(0)) \/ RatLeq(coreIn.headline_new_weight, R(0))
NothingToExclude == Counted = <<>>
OldWeightExceeded == RatLeq(coreIn.headline_old_weight, SumOver(Counted, OldWeightOf))
NewWeightExceeded == RatLeq(coreIn.headline_new_weight, SumOver(Counted, NewWeightOf))

ViolatedConditions ==
    (IF BadHeadlineIndex THEN {ErrHeadlineIndex} ELSE {})
    \cup (IF BadHeadlineWeight THEN {ErrHeadlineWeight} ELSE {})
    \cup (IF NothingToExclude THEN {ErrNoExclusions} ELSE {})
    \cup (IF OldWeightExceeded THEN {ErrOldWeight} ELSE {})
    \cup (IF NewWeightExceeded THEN {ErrNewWeight} ELSE {})

\* C6: when the input violates validation conditions, the call fails with
\* exactly one error for each violated condition, not only the first one.
C6_AllErrorsCollected ==
    (Returned /\ ViolatedConditions # {}) =>
        /\ Failed
        /\ Range(coreOut.errors) = ViolatedConditions
        /\ Len(coreOut.errors) = Cardinality(ViolatedConditions)

\* C7: when the summed weight of the exclusions reaches or exceeds the
\* headline weight of the old or of the new period, the call returns a
\* validation failure: neither a success nor a division by zero.
C7_ExcessWeightFails ==
    Returned =>
        /\ (\/ OldWeightExceeded
            \/ RatLeq(coreIn.headline_old_weight, SumOver(coreIn.exclusions, OldWeightOf)))
              => (Failed /\ ErrOldWeight \in Range(coreOut.errors))
        /\ (\/ NewWeightExceeded
            \/ RatLeq(coreIn.headline_new_weight, SumOver(coreIn.exclusions, NewWeightOf)))
              => (Failed /\ ErrNewWeight \in Range(coreOut.errors))

\* C8: with no exclusion of positive weight in either period the call
\* fails; exclusions whose weights are both non-positive add nothing to the
\* excluded sums and are not among the validated exclusions of a result.
C8_NeedsPositiveWeight ==
    Returned =>
        /\ NothingToExclude => (Failed /\ ErrNoExclusions \in Range(coreOut.errors))
        /\ Succeeded =>
              /\ \A i \in 1..Len(coreOut.exclusions) :
                    HasPositiveWeight(coreOut.exclusions[i])
              /\ Len(coreOut.exclusions) = Len(Counted)
              /\ coreOut.total_excluded_old_weight = SumOver(Counted, OldWeightOf)
              /\ coreOut.total_excluded_new_weight = SumOver(Counted, NewWeightOf)

\* valid headline numbers and two exclusions, both without positive weight
C8_Witness ==
    /\ Failed
    /\ Len(coreIn.exclusions) = 2
    /\ NothingToExclude
    /\ coreOut.errors = <<ErrNoExclusions>>

\* the value is rounding error only
IsUndetermined(x) == "undetermined" \in DOMAIN x

\* C9: on success, in each period the ex-items index is (headline index x
\* headline weight - sum of index x weight of the validated exclusions) over
\* (headline weight - sum of their weights), and the remaining weight is
\* that denominator.
C9_ExIndexFormula ==
    Succeeded =>
        LET ex == coreOut.exclusions
            rest_old == RatSub(coreIn.headline_old_weight, SumOver(ex, OldWeightOf))
            rest_new == RatSub(coreIn.headline_new_weight, SumOver(ex, NewWeightOf))
            difference_old ==
                RatSub(RatMul(coreIn.headline_old_index, coreIn.headline_old_weight),
                       SumOver(ex, OldWeightedOf))
            difference_new ==
                RatSub(RatMul(coreIn.headline_new_index, coreIn.headline_new_weight),
                       SumOver(ex, NewWeightedOf))
        IN  /\ ~RatIsZero(rest_old) /\ ~RatIsZero(rest_new)
            /\ ~IsUndetermined(coreOut.new_index)
            /\ IF IsUndetermined(coreOut.old_index)
               THEN \* rounding error only, where the quotient is zero
                    RatIsZero(difference_old)
               ELSE RatMul(coreOut.old_index, rest_old) = difference_old
            /\ RatMul(coreOut.new_index, rest_new) = difference_new
            /\ coreOut.remaining_old_weight = rest_old /\ coreOut.old_weight = rest_old
            /\ coreOut.remaining_new_weight = rest_new /\ coreOut.new_weight = rest_new

\* C10: on success the headline and ex-items inflation rates are
\* (new - old) / old x 100, the difference is ex-items minus headline, and
\* every validated exclusion carries (new_index - old_index) / old_index x 100.
C10_InflationRates ==
    Succeeded =>
        /\ RatMul(coreOut.headline_inflation, coreIn.headline_old_index) =
              RatMul(RatSub(coreIn.headline_new_index, coreIn.headline_old_index), R(100))
        /\ RatMul(coreOut.inflation_rate, coreOut.old_index) =
              RatMul(RatSub(coreOut.new_index, coreOut.old_index), R(100))
        /\ coreOut.difference_from_headline =
              RatSub(coreOut.inflation_rate, coreOut.headline_inflation)
        /\ \A i \in 1..Len(coreOut.exclusions) :
              LET e == coreOut.exclusions[i]
              IN  RatMul(e.inflation_rate, e.old_index) =
                     RatMul(RatSub(e.new_index, e.old_index), R(100))

\* x rounded to two decimals is hundredths / 100
Near(x, hundredths) ==
    LET diff == RatSub(x, Rat(hundredths, 100))
    IN  RatLeq(Rat(-1, 200), diff) /\ RatLeq(diff, Rat(1, 200))

\* headline 100.0 -> 115.45 at weight 100, one exclusion "Food" 105.0 -> 130.0
\* at weight 40
FoodScenario ==
    /\ coreIn.kind = "call"
    /\ coreIn.headline_old_index = R(100) /\ coreIn.headline_old_weight = R(100)
    /\ coreIn.headline_new_index = Rat(11545, 100) /\ coreIn.headline_new_weight = R(100)
    /\ coreIn.exclusions = << Excl("Food", R(105), R(40), R(130), R(40)) >>

\* C11 as stated: in the "Food" scenario the call succeeds with ex-items old
\* index 95.83, new index 106.58, ex-items inflation 11.22 %, headline
\* inflation 15.45 % and difference -4.23 points (to two decimals).
C11_ScenarioAsStated ==
    (FoodScenario /\ Returned) =>
        /\ Succeeded
        /\ Near(coreOut.old_index, 9583)
        /\ Near(coreOut.new_index, 10658)
        /\ Near(coreOut.inflation_rate, 1122)
        /\ coreOut.headline_inflation = Rat(1545, 100)
        /\ Near(coreOut.difference_from_headline, -423)

\* C11, amended: in the "Food" scenario the call succeeds with ex-items old
\* index (100 x 100 - 105 x 40) / 60 = 96.67, new index
\* (115.45 x 100 - 130 x 40) / 60 = 105.75, ex-items inflation 9.40 %,
\* headline inflation 15.45 % and difference -6.05 points (to two decimals).
C11_Scenario ==
    (FoodScenario /\ Returned) =>
        /\ Succeeded
        /\ coreOut.old_index = Rat(290, 3) /\ Near(coreOut.old_index, 9667)
        /\ coreOut.new_index = Rat(423, 4) /\ Near(coreOut.new_index, 10575)
        /\ Near(coreOut.inflation_rate, 940)
        /\ coreOut.headline_inflation = Rat(1545, 100)
        /\ Near(coreOut.difference_from_headline, -605)

\* the "Food" scenario has been calculated
C11_Witness ==
    /\ FoodScenario
    /\ Succeeded
    /\ coreOut.old_weight = R(60) /\ coreOut.new_weight = R(60)
    /\ Len(coreOut.exclusions) = 1

-----------------------------------------------------------------------------
(* Properties of the exclusion resolvers (checked under SpecResolvers) and
   of the wizard's tables (checked under Spec and SpecSameNames) *)

\* the rows of the class, group and division an item row belongs to, the
\* tables being joined by code
ClassRowsOf(item) ==
    {c \in Range(weights["class"]) : c.Class_Code = ClassCodeOf(item.Item_Code)}
GroupRowsOf(item) ==
    {g \in Range(weights["group"]) :
        \E c \in ClassRowsOf(item) : g.Group_Code = c.Group_Code}
DivisionRowsOf(item) ==
    {d \in Range(weights["division"]) :
        \E g \in GroupRowsOf(item) : d.Division_Code = g.Division_Code}

\* the node of one level above (or at) an item row
NodesOf(level, item) ==
    CASE level = "division" -> DivisionRowsOf(item)
      [] level = "group"    -> GroupRowsOf(item)
      [] level = "class"    -> ClassRowsOf(item)
      [] level = "item"     -> {item}

\* the codes of the items under one row of one level's table
ItemsUnder(level, row) ==
    {item.Item_Code : item \in {x \in Range(weights["item"]) : row \in NodesOf(level, x)}}

\* the node is present in its level's exclusion collection
IsSelected(level, row) == row[NameColumn(level)] \in Range(selected_exclusions[level])

AllItemCodes(e) == Codes(e.items_df, "Item_Code")

\* the raw weight sum of rows of items_df
RawWeightSum(rows) == RatSum([i \in 1..Len(rows) |-> R(rows[i].Weight)])

IsResult(out) == out # None /\ out.kind = "result"

\* the class, group and division codes above an item row of the engine's
\* tables, the tables being joined by code
EngineClassCodes(item) ==
    {x.Class_Code : x \in {y \in Range(engine.subclasses_df) :
                              y.Subclass_Code = item.Subclass_Code}}
EngineGroupCodes(item) ==
    {x.Group_Code : x \in {y \in Range(engine.classes_df) :
                              y.Class_Code \in EngineClassCodes(item)}}
EngineDivisionCodes(item) ==
    {x.Division_Code : x \in {y \in Range(engine.groups_df) :
                                 y.Group_Code \in EngineGroupCodes(item)}}

\* the item rows of the engine with the division, the group or the class
\* above them among the codes of the call c
EngineMatching(c) ==
    {item \in Range(engine.items_df) :
        \/ EngineDivisionCodes(item) \cap Range(c.excluded_divisions) # {}
        \/ EngineGroupCodes(item) \cap Range(c.excluded_groups) # {}
        \/ EngineClassCodes(item) \cap Range(c.excluded_classes) # {}}

\* C12: each resolver returns exactly the union of the items under the
\* selected nodes: an item code is excluded if and only if its division, its
\* group, its class or (in the wizard) the item itself is in the matching
\* collection; an item matched through several levels counts once, and no
\* item outside every selected subtree is excluded.  For the engine the
\* same is said of the excluded set of get_index_with_exclusions and of
\* the count and the weight of it the call reports.
C12_ResolverIsUnion ==
    /\ LET excluded == ExcludedItemCodes(selected_exclusions)
           matching == {item \in Range(weights["item"]) :
                           \E level \in Levels : \E row \in NodesOf(level, item) :
                               IsSelected(level, row)}
       IN  /\ \A item \in Range(weights["item"]) :
                 item.Item_Code \in excluded <=> item \in matching
           /\ excluded \subseteq {item.Item_Code : item \in Range(weights["item"])}
           /\ Cardinality(excluded) = Cardinality(matching)
    /\ (directIn # NoCall /\ directIn.kind = "get_index_with_exclusions") =>
          LET excluded == ExcludedItems(engine, directIn.excluded_divisions,
                                        directIn.excluded_groups, directIn.excluded_classes)
              matching == EngineMatching(directIn)
          IN  /\ \A item \in Range(engine.items_df) :
                    item.Item_Code \in excluded <=> item \in matching
              /\ excluded \subseteq AllItemCodes(engine)
              /\ IsResult(directOut) =>
                    /\ directOut.excluded_items_count = Cardinality(matching)
                    /\ directOut.Items_Count = Len(engine.items_df) - Cardinality(matching)
                    /\ directOut.excluded_weight =
                          RawWeightSum(SelectSeq(engine.items_df,
                                                 LAMBDA item : item \in matching))

\* in the wizard Basmati is matched through its group and by itself, Ponni
\* and Atta through the group only, and the items of group Pulses and of
\* division Fuel are outside; the engine, called with group 1.1 and class
\* 1.1.1, has excluded the same three items of five
C12_Witness ==
    /\ selected_exclusions = [NoExclusions EXCEPT !["group"] = <<"Cereals">>,
                                                  !["item"] = <<"Basmati">>]
    /\ ExcludedItemCodes(selected_exclusions) =
          {<<1, 1, 1, 1, 1>>, <<1, 1, 1, 1, 2>>, <<1, 1, 2, 1, 1>>}
    /\ directIn # NoCall
    /\ directIn.excluded_divisions = <<>>
    /\ directIn.excluded_groups = << <<1, 1>> >>
    /\ directIn.excluded_classes = << <<1, 1, 2>> >>
    /\ IsResult(directOut)
    /\ directOut.excluded_items_count = 3
    /\ directOut.Items_Count = 2

\* C13: nodes are identified by code: selecting one row of a level's table
\* excludes, beyond what was excluded before, only the items under that row,
\* also when another row of the table carries the same name.
C13_SelectsByCode ==
    [][\A level \in Levels : \A i \in ValidPicks(level) :
          LET row == weights[level][i + 1]
          IN  (/\ PickExclusion(level, <<i>>)
               /\ row[NameColumn(level)] \notin Range(selected_exclusions[level]))
              => (ExcludedItemCodes(selected_exclusions')
                     \ ExcludedItemCodes(selected_exclusions))
                    \subseteq ItemsUnder(level, row)]_vars

\* the five tables and the hierarchy of the engine object
EngineTables(e) ==
    IF e = NoEngine THEN NoEngine
    ELSE <<e.items_df, e.subclasses_df, e.classes_df, e.groups_df, e.divisions_df,
           e.hierarchy>>

\* C14: no toggle, reset, impact preview, resolve or calculate step changes
\* the weight tables or the hierarchy built from them: after any sequence of
\* steps they are the ones built at initialization.
C14_TablesNeverChange ==
    /\ [](item_map = BuildItemMap(weights))
    /\ [][/\ weights' = weights
          /\ item_map' = item_map
          /\ EngineTables(engine') = EngineTables(engine)]_vars

\* a second index has been calculated with exclusions in force, on tables
\* that are still the ones read at the start
C14_Witness ==
    /\ pc = "Calculated"
    /\ lastOp.op = "calculate" /\ lastOp.ok
    /\ Len(generated_indices) = 2
    /\ selected_exclusions["item"] # <<>>
    /\ weights = WeightsNew
    /\ item_map = BuildItemMap(WeightsNew)

-----------------------------------------------------------------------------
(* Properties of the direct calculation (checked under SpecDirect) *)

\* the step is a call of get_headline_index, get_index_with_exclusions or
\* _calculate_laspeyres
DirectCallStep ==
    /\ engine' = engine
    /\ directIn' # NoCall
    /\ <<directIn', directOut'>> # <<directIn, directOut>>

\* the item codes the call c selects
SelectedItems(e, c) ==
    CASE c.kind = "get_headline_index" -> AllItemCodes(e)
      [] c.kind = "get_index_with_exclusions" ->
            AllItemCodes(e) \ ExcludedItems(e, c.excluded_divisions, c.excluded_groups,
                                            c.excluded_classes)
      [] c.kind = "_calculate_laspeyres" -> c.item_codes
\* the rows of items_df of the selected items
SelectedRows(e, c) ==
    SelectIdx(e.items_df, LAMBDA i : e.items_df[i].Item_Code \in SelectedItems(e, c), 1)

\* C15: when every item code is excluded the direct calculation fails with
\* the empty-selection outcome (no result, None): it returns no index, and
\* fails with no other error.
C15_TotalExclusionIsEmptySelection ==
    [][(DirectCallStep /\ SelectedItems(engine, directIn') = {})
          => directOut' = None]_vars

\* C16: a selection whose raw weight sum is not positive is refused with the
\* empty-selection outcome, also when it is not empty; no index is computed
\* from a division by that sum.
C16_ZeroWeightIsEmptySelection ==
    [][(/\ DirectCallStep
        /\ engine.prices_df # None
        /\ RatLeq(RawWeightSum(SelectedRows(engine, directIn')), R(0)))
          => directOut' = None]_vars

\* C17: for a non-empty selection of positive raw weight sum, each
\* renormalised weight is raw weight / raw sum x 100, the renormalised
\* weights sum to exactly 100, and a result reports normalized weight 100
\* and the raw sum as its total weight.
C17_Renormalisation ==
    [][DirectCallStep =>
          LET rows == SelectedRows(engine, directIn')
              weight_sum == RawWeightSum(rows)
              normalized == WeightsNormalized(rows)
          IN  (rows # <<>> /\ RatLt(R(0), weight_sum)) =>
                 /\ \A i \in 1..Len(rows) :
                       RatMul(normalized[i], weight_sum) =
                          RatMul(R(rows[i].Weight), R(100))
                 /\ RatSum(normalized) = R(100)
                 /\ IsResult(directOut') =>
                       /\ directOut'.Weight_Normalized = R(100)
                       /\ directOut'.Total_Weight = weight_sum
                       /\ directOut'.Items_Count = Len(rows)]_vars

\* a result over three of the four items, of weights 3, 1 and 4
C17_Witness ==
    /\ directIn # NoCall /\ directIn.kind = "get_index_with_exclusions"
    /\ directIn.excluded_classes = << <<1, 1, 2>> >>
    /\ directIn.excluded_divisions = <<>> /\ directIn.excluded_groups = <<>>
    /\ IsResult(directOut)
    /\ directOut.Items_Count = 3
    /\ directOut.Total_Weight = R(8)
    /\ directOut.Weight_Normalized = R(100)

\* the selected items that have a price in the given month
Contributing(e, rows, month) ==
    SelectIdx(rows,
        LAMBDA i : \E j \in 1..Len(e.prices_df) :
                      /\ e.prices_df[j].Item_Code = rows[i].Item_Code
                      /\ ~IsNaN(e.prices_df[j].cells[month]), 1)

\* sum of price relative x weight, and sum of weight, over rows
PriceWeightSum(e, rows, month) ==
    RatSum([i \in 1..Len(rows) |->
               RatMul(MonthPrice(e.prices_df, rows[i].Item_Code, month), R(rows[i].Weight))])

\* C18: in every period the index is the weighted mean, sum of price
\* relative x weight over sum of weight, of exactly the selected items
\* that have a price in that period; when these all have the price relative
\* p the index is p.
C18_WeightedMean ==
    [][(DirectCallStep /\ IsResult(directOut')) =>
          \A k \in 1..Len(directOut'.Monthly_Data) :
              LET entry == directOut'.Monthly_Data[k]
                  items == Contributing(engine, SelectedRows(engine, directIn'), entry.Month)
              IN  RatLt(R(0), RawWeightSum(items)) =>
                     RatMul(entry.Index, RawWeightSum(items)) =
                        PriceWeightSum(engine, items, entry.Month)]_vars

\* C19: with nothing excluded, get_index_with_exclusions gives for every
\* period the index of get_headline_index, and the same item count and
\* total weight.
C19_NoExclusionIsHeadline ==
    [][(/\ DirectCallStep
        /\ directIn'.kind = "get_index_with_exclusions"
        /\ ExcludedItems(engine, directIn'.excluded_divisions, directIn'.excluded_groups,
                         directIn'.excluded_classes) = {}
        /\ IsResult(GetHeadlineIndex(engine)))
          => LET headline == GetHeadlineIndex(engine)
             IN  /\ IsResult(directOut')
                 /\ directOut'.Monthly_Data = headline.Monthly_Data
                 /\ directOut'.Items_Count = headline.Items_Count
                 /\ directOut'.Total_Weight = headline.Total_Weight
                 /\ directOut'.excluded_items_count = 0]_vars

\* an index with no exclusion (one unknown division code) has been
\* calculated from a price file that lacks one item
C19_Witness ==
    /\ directIn # NoCall /\ directIn.kind = "get_index_with_exclusions"
    /\ directIn.excluded_divisions = << <<9>> >>
    /\ directIn.excluded_groups = <<>> /\ directIn.excluded_classes = <<>>
    /\ IsResult(directOut)
    /\ directOut.Items_Count = 4
    /\ Len(directOut.Monthly_Data) = 3
    /\ engine.prices_df # None /\ Len(engine.prices_df) = 3

\* every item has a price in every month
FullPriceData(e) ==
    /\ e.prices_df # None
    /\ \A code \in AllItemCodes(e) : \E j \in 1..Len(e.prices_df) :
          /\ e.prices_df[j].Item_Code = code
          /\ \A m \in 1..Len(e.months) : ~IsNaN(e.prices_df[j].cells[m])

\* what the algebraic calculator returns for the periods old and new from
\* the headline and the directly computed index and weight of the subset
AlgebraicComplement(headline, subset, old, new) ==
    CalculateCore(engine, headline.Monthly_Data[old].Index, headline.Total_Weight,
                  headline.Monthly_Data[new].Index, headline.Total_Weight,
                  << Excl("subset", subset.Monthly_Data[old].Index, subset.Total_Weight,
                          subset.Monthly_Data[new].Index, subset.Total_Weight) >>,
                  "complement", NoRounding)

\* C20: with full price data, the index computed directly over the
\* complement of a subset S equals, in each of two periods, the index the
\* algebraic calculator derives from the headline (index, weight) and the
\* directly computed (index, weight) of S.
C20_AlgebraicMatchesDirect ==
    [][(/\ DirectCallStep
        /\ directIn'.kind = "_calculate_laspeyres"
        /\ FullPriceData(engine)
        /\ directIn'.item_codes # {}
        /\ directIn'.item_codes # AllItemCodes(engine))
          => LET S == AllItemCodes(engine) \ directIn'.item_codes
                 headline == GetHeadlineIndex(engine)
                 subset == CalculateLaspeyres(engine, S, "S")
             IN  (/\ RatLt(R(0), subset.Total_Weight)
                  /\ RatLt(subset.Total_Weight, headline.Total_Weight))
                   => /\ IsResult(directOut')
                      /\ \A old, new \in 1..Len(engine.months) :
                            old < new =>
                               LET core == AlgebraicComplement(headline, subset, old, new)
                               IN  /\ core.kind = "result" /\ core.success
                                   /\ core.old_index = directOut'.Monthly_Data[old].Index
                                   /\ core.new_index = directOut'.Monthly_Data[new].Index
                                   /\ core.old_weight = directOut'.Total_Weight]_vars

\* the index of two items of different classes has been computed directly,
\* with full price data
C20_Witness ==
    /\ directIn # NoCall /\ directIn.kind = "_calculate_laspeyres"
    /\ directIn.item_codes = {<<1, 1, 1, 1, 2>>, <<2, 1, 1, 1, 1>>}
    /\ FullPriceData(engine)
    /\ IsResult(directOut)
    /\ directOut.Total_Weight = R(5)
    /\ Len(directOut.Monthly_Data) = 3

-----------------------------------------------------------------------------
(* Purity of the algebraic calculator (checked under SpecCore) *)

\* what the call coreIn returns on the engine e
CoreResultOn(e) ==
    CalculateCore(e, coreIn.headline_old_index, coreIn.headline_old_weight,
                  coreIn.headline_new_index, coreIn.headline_new_weight,
                  coreIn.exclusions, coreIn.scenario_name, NoRounding)

\* C21: the result of calculate_core_with_manual_exclusions depends on its
\* arguments only: an engine with another hierarchy, other weight tables or
\* other price data returns the same result for the same arguments, and the
\* call changes nothing of the engine.
C21_DependsOnArgumentsOnly ==
    /\ [](Returned => \A e \in CoreEngines : CoreResultOn(e) = coreOut)
    /\ [][engine' = engine]_vars

-----------------------------------------------------------------------------
(* Determinism of the wizard's calculation (checked under SpecTimed) *)

\* the rows of the item map built from the weight files that lie under no
\* selected node: the selected items
SelectedItemRows ==
    SelectSeq(BuildItemMap(weights),
              LAMBDA item : ~\E level \in Levels : \E row \in NodesOf(level, item) :
                                IsSelected(level, row))

\* the frame computed from the selected items, the data and a name alone
ReferenceFrame(name) ==
    [kind |-> "frame", rows |-> AllSeries(SelectedItemRows, 1, name)]

\* C22 as stated: a calculation returns what any calculation with the same
\* selected items, data and supplied name returns, name tag included,
\* whatever the session did before and at whatever time either is made.
C22_SameInputsSameResult ==
    [][CalculateSucceeded =>
          \A now \in ClockReadings :
              generated_indices'[Len(generated_indices')]
                 = ReferenceFrame(IndexName(lastOp'.input, now))]_vars

\* C22, amended: two calculations with the same selected items, data and
\* supplied name return identical results whatever the session did before
\* and whenever they are made, name tag included when the supplied name is
\* not blank; with a blank name the values are identical too, and the tag
\* is the default name built from the time of the call.
C22_Deterministic ==
    [][CalculateSucceeded =>
          LET last == generated_indices'[Len(generated_indices')]
              name == Strip(lastOp'.input)
          IN  IF name # "" THEN last = ReferenceFrame(name)
              ELSE \E now \in ClockReadings : last = ReferenceFrame(DefaultName(now))]_vars

\* two calculations with the same selected items and the same name have
\* queued the same frame in two rounds of one session
C22_Witness ==
    /\ pc = "Calculated" /\ lastOp.op = "calculate" /\ lastOp.ok
    /\ Len(generated_indices) = 2
    /\ generated_indices[1] = generated_indices[2]
    /\ TaggedWith(generated_indices[2], "Core")
    /\ selected_exclusions["item"] = <<"Ponni">>

-----------------------------------------------------------------------------
(* Month-over-month change (checked under SpecSameNames for the wizard's
   frames, under SpecDirect for the engine's results) *)

\* the rows of rows that belong to the group key of row i and come before it
EarlierInGroup(rows, i) ==
    {j \in 1..Len(rows) : /\ rows[j].state = rows[i].state
                           /\ rows[j].sector = rows[i].sector
                           /\ rows[j].date < rows[i].date}

\* change is (index - previous index) / previous index x 100
IsChangeFrom(change, index, previous) ==
    /\ ~IsNaN(change)
    /\ RatMul(change, previous) = RatMul(RatSub(index, previous), R(100))

\* C23 as stated: in every result, a row that is not the first of its
\* group key carries the change from the row of the immediately preceding
\* calendar period of the same group key; the first row of each group key
\* carries the missing marker.
C23_ChangeFromPrecedingCalendarPeriod ==
    \A f \in 1..Len(generated_indices) :
        LET rows == generated_indices[f].rows
        IN  \A i \in 1..Len(rows) :
                IF EarlierInGroup(rows, i) = {} THEN IsNaN(rows[i].mom_change)
                ELSE \E j \in EarlierInGroup(rows, i) :
                        /\ rows[j].date = rows[i].date - 1
                        /\ IsChangeFrom(rows[i].mom_change, rows[i].index, rows[j].index)

\* what pct_change computes: a row that is not the first of its group key
\* carries (index[t] - index[t-1]) / index[t-1] x 100, t-1 being the row
\* before it in the series of the same group key, whatever its date; the
\* first row of each group key carries the missing marker, and no change is
\* computed from one group key to another.
ChangeFromPrecedingRow ==
    \A f \in 1..Len(generated_indices) :
        LET rows == generated_indices[f].rows
        IN  \A i \in 1..Len(rows) :
                IF EarlierInGroup(rows, i) = {} THEN IsNaN(rows[i].mom_change)
                ELSE LET j == CHOOSE p \in EarlierInGroup(rows, i) :
                                 \A q \in EarlierInGroup(rows, i) : rows[q].date <= rows[p].date
                     IN  IsChangeFrom(rows[i].mom_change, rows[i].index, rows[j].index)

\* a result whose second group key has no row for the second date: its
\* third-date row carries the change from the first date
GapInSeries ==
    /\ generated_indices # <<>>
    /\ LET rows == generated_indices[1].rows
       IN  /\ Len(rows) = 5
           /\ rows[3].sector = "Combined" /\ rows[3].date = 3
           /\ rows[4].sector = "Rural" /\ rows[4].date = 1 /\ IsNaN(rows[4].mom_change)
           /\ rows[5].sector = "Rural" /\ rows[5].date = 3
           /\ rows[5].mom_change = R(20)

\* the engine's one series: the first month carries 0.0 and every later
\* month the change from the month before it
EngineChangeFromPrecedingMonth ==
    [][(DirectCallStep /\ IsResult(directOut')) =>
          LET data == directOut'.Monthly_Data
          IN  \A i \in 1..Len(data) :
                  IF i = 1 THEN data[i].MoM_Change = R(0)
                  ELSE /\ data[i].Month = data[i - 1].Month + 1
                       /\ IsChangeFrom(data[i].MoM_Change, data[i].Index,
                                       data[i - 1].Index)]_vars

-----------------------------------------------------------------------------
(* Properties of hierarchy construction (checked under SpecExport) *)

\* the step is a call of the constructor CPIEngine(weights_dir)
ConstructStep ==
    /\ engine = NoEngine
    /\ lastOp'.op = "CPIEngine"

\* the columns each weight table must have
RequiredColumns ==
    [divisions_df |-> {"Division_Code", "Division_Name", "Weight"},
     groups_df |-> {"Group_Code", "Group_Name", "Division_Code", "Weight"},
     classes_df |-> {"Class_Code", "Class_Name", "Group_Code", "Weight"},
     subclasses_df |-> {"Subclass_Code", "Subclass_Name", "Class_Code", "Weight"},
     items_df |-> {"Item_Code", "Item_Name", "Subclass_Code", "Weight"}]

\* a table or a required column is absent from the directory
SchemaViolated(dir) ==
    \/ ~(WeightFiles \subseteq DOMAIN dir)
    \/ \E f \in WeightFiles : ~(RequiredColumns[f] \subseteq Columns(dir[f]))

\* some row of children weighs more than the row of parents it names
ExceedsParent(children, parents, key) ==
    \E i \in 1..Len(children) : \E j \in 1..Len(parents) :
        /\ children[i][key] = parents[j][key]
        /\ children[i].Weight > parents[j].Weight

WeightExceedsParent(dir) ==
    \/ ExceedsParent(dir.items_df, dir.subclasses_df, "Subclass_Code")
    \/ ExceedsParent(dir.subclasses_df, dir.classes_df, "Class_Code")
    \/ ExceedsParent(dir.classes_df, dir.groups_df, "Group_Code")
    \/ ExceedsParent(dir.groups_df, dir.divisions_df, "Division_Code")

\* the constructor raised and left no engine, hence no hierarchy
ConstructionFailed == directOut'.kind = "raise" /\ engine' = NoEngine

\* C24: construction fails with an error (SchemaError, whatever the
\* exception is called) when a required column is absent from a weight
\* table, and with an error (IntegrityError) when a node's weight exceeds
\* its parent's; after either failure no hierarchy is available.
C24_BadTablesFailConstruction ==
    [][ConstructStep =>
          LET dir == directIn'.weights_dir
          IN  /\ SchemaViolated(dir) => ConstructionFailed
              /\ (~SchemaViolated(dir) /\ WeightExceedsParent(dir)) => ConstructionFailed]_vars

\* the weights of the rows of children that name the parent code, summed
ChildWeight(children, key, code, column) ==
    IntSum([i \in 1..Len(children) |->
               IF children[i][key] = code THEN children[i][column] ELSE 0])

\* every row of parents weighs the sum of its children, every child names
\* a parent of the table, and no code has two rows
SumsOfChildren(parents, children, key, column) ==
    /\ \A j \in 1..Len(parents) :
          parents[j].Weight = ChildWeight(children, key, parents[j][key], column)
    /\ \A i \in 1..Len(children) : children[i][key] \in Codes(parents, key)
    /\ \A j, k \in 1..Len(parents) : parents[j][key] = parents[k][key] => j = k

\* C25: in the tables built bottom-up from the deduplicated items, each
\* subclass weighs the sum of its items, each class the sum of its
\* subclasses, each group the sum of its classes and each division the sum
\* of its groups; hence the divisions together weigh what the items do.
C25_ParentIsSumOfChildren ==
    (exporter.kind = "exporter" /\ exporter.division_df # None) =>
        LET items == exporter.items_unique.rows
            subclasses == exporter.subclass_df.rows
            classes == exporter.class_df.rows
            groups == exporter.group_df.rows
            divisions == exporter.division_df.rows
        IN  /\ \A i, j \in 1..Len(items) : items[i].Item_Code = items[j].Item_Code => i = j
            /\ Codes(items, "Item_Code") = Codes(exporter.sheet, "Item_Code")
            /\ SumsOfChildren(subclasses, items, "Subclass_Code", "Share_in_All_India")
            /\ SumsOfChildren(classes, subclasses, "Class_Code", "Weight")
            /\ SumsOfChildren(groups, classes, "Group_Code", "Weight")
            /\ SumsOfChildren(divisions, groups, "Division_Code", "Weight")
            /\ IntSum([j \in 1..Len(divisions) |-> divisions[j].Weight])
                  = IntSum([i \in 1..Len(items) |-> items[i].Share_in_All_India])

\* the levels have been built from a sheet with a repeated item code: two
\* items remain, in two classes of one group
C25_Witness ==
    /\ exporter.kind = "exporter" /\ exporter.division_df # None
    /\ lastOp.op = "build_hierarchy" /\ lastOp.ok
    /\ Len(exporter.sheet) = 3 /\ Len(exporter.items_unique.rows) = 2
    /\ Len(exporter.class_df.rows) = 2 /\ Len(exporter.group_df.rows) = 1
    /\ exporter.group_df.rows[1].Weight = 60
    /\ exporter.division_df.rows[1].Weight = 60

\* C26: the division weights of the hierarchy of a constructed engine sum
\* to 100.
C26_DivisionWeightsSumTo100 ==
    (engine.kind = "engine") =>
        RatSum([k \in 1..Len(engine.divisions_df) |->
                   engine.hierarchy[engine.divisions_df[k].Division_Code].weight]) = R(100)

-----------------------------------------------------------------------------
(* Properties of the fallbacks of the calculation core (checked under
   SpecCore and SpecDirect) *)

\* weight_total of _calculate_laspeyres for the call c: the renormalised
\* weights of the selected items that have a price row, summed
MatchedWeightTotal(e, c) ==
    LET items_data == SelectedRows(e, c)
        prices_data == SelectIdx(e.prices_df,
                           LAMBDA i : e.prices_df[i].Item_Code \in SelectedItems(e, c), 1)
        weights_normalized == WeightsNormalized(items_data)
        matched_items == MatchedItems(items_data, prices_data)
    IN  SumSkipNa([j \in 1..Len(matched_items) |-> weights_normalized[matched_items[j]]])

\* C27: no default stands in for an invalid condition: a direct calculation
\* whose matched weight total is not positive returns no result, and a
\* successful algebraic calculation has no exclusion whose old index, the
\* divisor of its inflation rate, is not positive.
C27_NoStandInValue ==
    /\ [][(DirectCallStep /\ IsResult(directOut'))
             => RatLt(R(0), MatchedWeightTotal(engine, directIn'))]_vars
    /\ [](Succeeded =>
             \A i \in 1..Len(coreOut.exclusions) :
                 RatLt(R(0), coreOut.exclusions[i].old_index))

-----------------------------------------------------------------------------
(* Properties of selectors that match nothing (checked under SpecDirect) *)

\* the codes of the group and of the class nodes of the hierarchy
GroupCodes(e) == UNION { DOMAIN e.hierarchy[d].groups : d \in DOMAIN e.hierarchy }
ClassCodes(e) ==
    UNION { UNION { DOMAIN e.hierarchy[d].groups[g].classes :
                      g \in DOMAIN e.hierarchy[d].groups } : d \in DOMAIN e.hierarchy }

\* list without the entries that are not in known
OnlyKnown(list, known) == SelectIdx(list, LAMBDA i : list[i] \in known, 1)

\* the call c without the selectors that are no node of their level
WithoutUnknown(e, c) ==
    [c EXCEPT !.excluded_divisions = OnlyKnown(@, DOMAIN e.hierarchy),
              !.excluded_groups = OnlyKnown(@, GroupCodes(e)),
              !.excluded_classes = OnlyKnown(@, ClassCodes(e))]

\* the call names a selector that is no node of its level
HasUnknown(e, c) == WithoutUnknown(e, c) # c

\* names that no row of the level's table carries
UnknownNames(level) == {"Unlisted", "Food", "Rice", "Basmati"} \ Range(LevelNames(level))

\* exclusion collections of at most one listed name a level
SmallExclusions ==
    [Levels -> {<<>>}] \cup
    UNION { { [NoExclusions EXCEPT ![l] = <<LevelNames(l)[i]>>,
                                   ![m] = IF m = l THEN <<LevelNames(l)[i]>>
                                          ELSE <<LevelNames(m)[1]>>] :
                i \in 1..Len(LevelNames(l)) } : l \in Levels, m \in Levels }

\* C28: a selector that matches no node raises no error and changes
\* nothing: a call of get_index_with_exclusions returns what the call
\* without its unknown selectors returns, and the wizard resolves an
\* exclusion set with an unknown name added to the items it resolves the
\* set to.
C28_UnknownSelectorIneffective ==
    /\ [][(DirectCallStep /\ directIn'.kind = "get_index_with_exclusions")
             => /\ directOut' = DirectResult(engine, WithoutUnknown(engine, directIn'))
                /\ SelectedItems(engine, directIn')
                      = SelectedItems(engine, WithoutUnknown(engine, directIn'))]_vars
    /\ [](\A E \in SmallExclusions : \A level \in Levels : \A u \in UnknownNames(level) :
             ExcludedItemCodes([E EXCEPT ![level] = Append(@, u)]) = ExcludedItemCodes(E))

\* a call excluding division 1 and the unknown division 9 has returned the
\* index of the items of division 2
C28_Witness ==
    /\ directIn # NoCall /\ directIn.kind = "get_index_with_exclusions"
    /\ HasUnknown(engine, directIn)
    /\ directIn.excluded_divisions = << <<1>>, <<9>> >>
    /\ IsResult(directOut)
    /\ directOut.excluded_items_count = 3

-----------------------------------------------------------------------------
(* Properties of the results of the algebraic calculator (checked under
   SpecCore) *)

\* C29: in every success result each validated exclusion has a weight that
\* is not negative in both periods, and the remaining weight of each period
\* is positive and not more than the headline weight.
C29_WeightsWithinHeadline ==
    Succeeded =>
        /\ \A i \in 1..Len(coreOut.exclusions) :
              /\ RatLeq(R(0), coreOut.exclusions[i].old_weight)
              /\ RatLeq(R(0), coreOut.exclusions[i].new_weight)
        /\ RatLt(R(0), coreOut.remaining_old_weight)
        /\ RatLeq(coreOut.remaining_old_weight, coreIn.headline_old_weight)
        /\ RatLt(R(0), coreOut.remaining_new_weight)
        /\ RatLeq(coreOut.remaining_new_weight, coreIn.headline_new_weight)

\* C30: a call whose input passes every validation check returns a success
\* result, it does not raise, and the ex-items index of the result is
\* positive in both periods.
C30_ValidInputSucceeds ==
    (Returned /\ ViolatedConditions = {}) =>
        /\ Succeeded
        /\ RatLt(R(0), coreOut.old_index)
        /\ RatLt(R(0), coreOut.new_index)

====
